---- MODULE Spec2Model ----
(***************************************************************************)
(* A model of the Transformer-aware stream prefetcher                      *)
(* (prefetcher/transformer_stream) and of the bandwidth-aware selector     *)
(* that multiplexes it with Pythia                                         *)
(* (prefetcher/transformer_pythia_selector_bw).                            *)
(*                                                                         *)
(* Blocks are block numbers (address >> LOG2_BLOCK_SIZE), kept away from 0 *)
(* and 2^64 so that no block arithmetic wraps.  The host is the            *)
(* environment: each hook call draws the MSHR occupancy (in percent), the  *)
(* room left in the prefetch queue (prefetch_line succeeds while room is   *)
(* left) and the DRAM bandwidth reading.  Pythia is opaque: the word its   *)
(* cache_operate returns is an input.                                      *)
(***************************************************************************)
EXTENDS Integers, Sequences, FiniteSets, TLC

(***************************************************************************)
(* transformer_config: values as in the source.                            *)
(***************************************************************************)
REGION_SIZE_BLOCKS == 4
CONFIRMATION_THRESHOLD == 3
SHORT_STREAM_THRESHOLD == 4
BASE_PREFETCH_DEGREE == 2
DENSE_STRIDE_MAX == 2
MEDIUM_STRIDE_MAX == 16
DENSE_LENGTH_MIN == 8
MEDIUM_LENGTH_MIN == 4
DENSE_PREFETCH_DEGREE == 4
MEDIUM_PREFETCH_DEGREE == 2
SPARSE_PREFETCH_DEGREE == 1
MAX_CONFIDENCE == 8
CONFIDENCE_BOOST_ON_REUSE == 2
FAST_TRACK_CONFIDENCE == 4
MIN_PREFETCH_DEGREE == 1
CONSERVATIVE_LOOKAHEAD == 1
AGGRESSIVE_LOOKAHEAD == 4
STRIDE_STABILITY_THRESHOLD == 3

(* enum class StreamDirection : int8_t *)
UNKNOWN == 0
POSITIVE == 1
NEGATIVE == -1

(* std::numeric_limits<int>::max() *)
INT_MAX == 2147483647

(***************************************************************************)
(* transformer_config: table sizes, windows and thresholds, scaled down so *)
(* that full tables, dead streams, phase windows and the end of a stream   *)
(* are reached within the explored runs.  Source values in brackets.       *)
(***************************************************************************)
\* TRAINING_TABLE_SIZE [32]
TRAINING_TABLE_SIZE == 2
\* STREAM_TABLE_SIZE [32]
STREAM_TABLE_SIZE == 3
\* MAX_STREAM_GROUPS [8]
MAX_STREAM_GROUPS == 2
\* MAX_STREAMS_PER_GROUP [8]
MAX_STREAMS_PER_GROUP == 2
\* PATTERN_HISTORY_SIZE [16]
PATTERN_HISTORY_SIZE == 2
\* DEAD_STREAM_THRESHOLD [1000]
DEAD_STREAM_THRESHOLD == 2
\* CLEANUP_INTERVAL [256]
CLEANUP_INTERVAL == 5
\* REUSE_WINDOW_SIZE [2000]
REUSE_WINDOW_SIZE == 8
\* PHASE_WINDOW_SIZE [64]
PHASE_WINDOW_SIZE == 4
\* PHASE_TRANSITION_THRESHOLD [4]
PHASE_TRANSITION_THRESHOLD == 1
\* PHASE_RECOVERY_WINDOW [32]
PHASE_RECOVERY_WINDOW == 2
\* the literal 64 of create_stream and reactivate_stream: a stream's extent,
\* in strides [64]
STREAM_EXTENT == 3

(***************************************************************************)
(* Arithmetic helpers.                                                     *)
(***************************************************************************)
Min(a, b) == IF a < b THEN a ELSE b
Max(a, b) == IF a > b THEN a ELSE b
Abs(x) == IF x < 0 THEN -x ELSE x
SetMin(S) == CHOOSE x \in S : \A y \in S : x <= y

\* champsim::offset(base, other): the signed distance from base to other
offset(base, other) == other - base

TrainIdx == 0 .. (TRAINING_TABLE_SIZE - 1)
StreamIdx == 0 .. (STREAM_TABLE_SIZE - 1)
GroupIdx == 0 .. (MAX_STREAM_GROUPS - 1)
MemberIdx == 0 .. (MAX_STREAMS_PER_GROUP - 1)
PatternIdx == 0 .. (PATTERN_HISTORY_SIZE - 1)

(***************************************************************************)
(* The tables after prefetcher_initialize.  Fields the initialiser does    *)
(* not write hold their default member initialisers (the arrays are        *)
(* value-initialised).                                                     *)
(***************************************************************************)
TrainingEntry ==
  [valid |-> FALSE, region_base |-> 0, last_miss_block |-> 0,
   second_last_miss_block |-> 0, third_last_miss_block |-> 0,
   miss_count |-> 0, direction |-> UNKNOWN, stride |-> 1,
   last_access_timestamp |-> 0, pattern_confidence |-> 0]

TransformerStreamEntry ==
  [valid |-> FALSE, active |-> FALSE, stream_start_block |-> 0,
   stream_end_block |-> 0, current_prefetch_block |-> 0,
   direction |-> POSITIVE, stride |-> 1, last_trigger_timestamp |-> 0,
   stream_length |-> 0, stream_class |-> "UNKNOWN", reactivation_count |-> 0,
   confidence_score |-> 1, accesses_in_window |-> 0, group_id |-> -1,
   consistent_stride_count |-> 0]

StreamGroup ==
  [valid |-> FALSE, stride |-> 0, direction |-> UNKNOWN, member_count |-> 0,
   group_confidence |-> 0, last_seen_timestamp |-> 0,
   typical_class |-> "UNKNOWN", members |-> [k \in MemberIdx |-> -1]]

PatternHistoryEntry ==
  [valid |-> FALSE, direction |-> UNKNOWN, stride |-> 0, region_base |-> 0,
   termination_timestamp |-> 0, stream_length |-> 0,
   stream_class |-> "UNKNOWN"]

PhaseState ==
  [window_start_timestamp |-> 0, streams_terminated_in_window |-> 0,
   misses_in_window |-> 0, current_prefetch_degree |-> BASE_PREFETCH_DEGREE,
   in_phase_transition |-> FALSE, recovery_counter |-> 0]

(***************************************************************************)
(* The operators below take and return the prefetcher's state as a record  *)
(* t: the object's fields, plus the host's answers for the hook call under *)
(* way (t.mshr, t.room), the prefetch_line calls made so far in it         *)
(* (t.calls) and the streams terminated so far in it (t.terminated).       *)
(***************************************************************************)
prefetcher_initialize ==
  [training_table |-> [i \in TrainIdx |-> TrainingEntry],
   stream_table |-> [i \in StreamIdx |-> TransformerStreamEntry],
   stream_groups |-> [g \in GroupIdx |-> StreamGroup],
   pattern_history |-> [p \in PatternIdx |-> PatternHistoryEntry],
   pattern_history_head |-> 0,
   phase_state |-> PhaseState,
   current_timestamp |-> 0,
   cleanup_counter |-> 0,
   mshr |-> 0, room |-> 0, calls |-> << >>, terminated |-> << >>]

\* compute_region_base for regions of twice the size
compute_region_base_wide(block) == block - (block % (2 * REGION_SIZE_BLOCKS))

compute_region_base(block) == block - (block % REGION_SIZE_BLOCKS)

(***************************************************************************)
(* Training table                                                          *)
(***************************************************************************)
\* find_training_entry that looks at the first entry only
find_training_entry_first(t, region_base) ==
  IF t.training_table[0].valid /\ t.training_table[0].region_base = region_base
  THEN 0
  ELSE -1

find_training_entry(t, region_base) ==
  LET S == {i \in TrainIdx : t.training_table[i].valid
                             /\ t.training_table[i].region_base = region_base}
  IN IF S = {} THEN -1 ELSE SetMin(S)

\* the entry allocate_training_entry takes: the first invalid one, else the
\* first of those with the least last_access_timestamp
TrainingVictim(t) ==
  LET inv == {i \in TrainIdx : ~t.training_table[i].valid}
      lru == {i \in TrainIdx : \A j \in TrainIdx :
                t.training_table[i].last_access_timestamp
                  <= t.training_table[j].last_access_timestamp}
  IN IF inv # {} THEN SetMin(inv) ELSE SetMin(lru)

\* allocate_training_entry writes valid, region_base, miss_count, direction,
\* stride, last_access_timestamp and pattern_confidence; the three recorded
\* blocks keep what the slot held
allocate_training_entry(t, region_base) ==
  LET i == TrainingVictim(t) IN
  [t |-> [t EXCEPT !.training_table[i] =
            [@ EXCEPT !.valid = TRUE, !.region_base = region_base,
                      !.miss_count = 0, !.direction = UNKNOWN, !.stride = 1,
                      !.last_access_timestamp = t.current_timestamp,
                      !.pattern_confidence = 0]],
   idx |-> i]

is_noise(gap1, gap2) ==
  /\ \/ (gap1 = 1 /\ gap2 < 0) \/ (gap1 = -1 /\ gap2 > 0)
     \/ (gap2 = 1 /\ gap1 < 0) \/ (gap2 = -1 /\ gap1 > 0)
  /\ (Abs(gap1) <= 1 \/ Abs(gap2) <= 1)

detect_direction(gap1, gap2) ==
  IF gap1 > 0 /\ gap2 > 0 THEN POSITIVE
  ELSE IF gap1 < 0 /\ gap2 < 0 THEN NEGATIVE
  ELSE UNKNOWN

detect_stride(gap1, gap2) ==
  IF Abs(gap1) # Abs(gap2) THEN 0
  ELSE IF Abs(gap1) < 1 THEN 0
  ELSE Abs(gap1)

(***************************************************************************)
(* Pattern history                                                         *)
(***************************************************************************)
find_matching_pattern(t, dir, stride, region) ==
  LET region_base == compute_region_base(region)
      S == {i \in PatternIdx :
              LET pattern == t.pattern_history[i] IN
              /\ pattern.valid
              /\ ~(t.current_timestamp - pattern.termination_timestamp
                     > REUSE_WINDOW_SIZE)
              /\ pattern.direction = dir /\ pattern.stride = stride
              /\ Abs(offset(region_base,
                            compute_region_base(pattern.region_base)))
                   <= REGION_SIZE_BLOCKS * 4}
  IN IF S = {} THEN -1 ELSE SetMin(S)

get_pattern_confidence(t, dir, stride, region) ==
  LET pattern_idx == find_matching_pattern(t, dir, stride, region) IN
  IF pattern_idx < 0 THEN 0
  ELSE
    LET pattern == t.pattern_history[pattern_idx]
        age == t.current_timestamp - pattern.termination_timestamp
        base_confidence ==
          1 + (IF pattern.stream_length >= DENSE_LENGTH_MIN THEN 2 ELSE 0)
            + (IF age < REUSE_WINDOW_SIZE \div 4 THEN 2
               ELSE IF age < REUSE_WINDOW_SIZE \div 2 THEN 1 ELSE 0)
    IN Min(base_confidence, MAX_CONFIDENCE \div 2)

can_fast_track_training(entry) ==
  entry.pattern_confidence >= FAST_TRACK_CONFIDENCE

\* record_pattern that leaves pattern_history_head where it is
record_pattern_in_place(t, entry) ==
  [t EXCEPT
     !.pattern_history[t.pattern_history_head] =
        [valid |-> TRUE, direction |-> entry.direction,
         stride |-> entry.stride, region_base |-> entry.stream_start_block,
         termination_timestamp |-> t.current_timestamp,
         stream_length |-> entry.stream_length,
         stream_class |-> entry.stream_class]]

record_pattern(t, entry) ==
  [t EXCEPT
     !.pattern_history[t.pattern_history_head] =
        [valid |-> TRUE, direction |-> entry.direction,
         stride |-> entry.stride, region_base |-> entry.stream_start_block,
         termination_timestamp |-> t.current_timestamp,
         stream_length |-> entry.stream_length,
         stream_class |-> entry.stream_class],
     !.pattern_history_head =
        (t.pattern_history_head + 1) % PATTERN_HISTORY_SIZE]

update_training_entry(t, idx, miss_block) ==
  LET entry == [t.training_table[idx] EXCEPT
                  !.last_access_timestamp = t.current_timestamp]
      shifted == [entry EXCEPT
                    !.third_last_miss_block = entry.second_last_miss_block,
                    !.second_last_miss_block = entry.last_miss_block,
                    !.last_miss_block = miss_block]
      gap1 == offset(shifted.third_last_miss_block,
                     shifted.second_last_miss_block)
      gap2 == offset(shifted.second_last_miss_block, shifted.last_miss_block)
      detected_dir == detect_direction(gap1, gap2)
      detected_stride == detect_stride(gap1, gap2)
      reset == [shifted EXCEPT !.miss_count = 1, !.direction = UNKNOWN,
                               !.stride = 1]
      new ==
        IF entry.miss_count = 0 THEN
          [entry EXCEPT
             !.last_miss_block = miss_block, !.miss_count = 1,
             !.pattern_confidence =
                get_pattern_confidence(t, UNKNOWN, 0, entry.region_base)]
        ELSE IF entry.miss_count = 1 THEN
          [entry EXCEPT
             !.second_last_miss_block = entry.last_miss_block,
             !.last_miss_block = miss_block, !.miss_count = 2]
        ELSE IF is_noise(gap1, gap2) THEN shifted
        ELSE IF detected_dir = UNKNOWN THEN reset
        ELSE IF detected_stride <= 0 THEN reset
        ELSE
          [shifted EXCEPT
             !.direction = detected_dir, !.stride = detected_stride,
             !.miss_count = 3,
             !.pattern_confidence =
                get_pattern_confidence(t, detected_dir, detected_stride,
                                       entry.region_base)]
  IN [t EXCEPT !.training_table[idx] = new]

(***************************************************************************)
(* Stream groups                                                           *)
(***************************************************************************)
find_stream_group(t, dir, stride) ==
  LET S == {g \in GroupIdx : /\ t.stream_groups[g].valid
                             /\ t.stream_groups[g].direction = dir
                             /\ t.stream_groups[g].stride = stride}
  IN IF S = {} THEN -1 ELSE SetMin(S)

\* the class a group is given from its stride when it is (re)created
GroupClass(stride) ==
  IF stride <= DENSE_STRIDE_MAX THEN "DENSE"
  ELSE IF stride <= MEDIUM_STRIDE_MAX THEN "MEDIUM"
  ELSE "SPARSE"

NewGroup(t, dir, stride) ==
  [valid |-> TRUE, stride |-> stride, direction |-> dir, member_count |-> 0,
   group_confidence |-> 0, last_seen_timestamp |-> t.current_timestamp,
   typical_class |-> GroupClass(stride), members |-> [k \in MemberIdx |-> -1]]

\* the eviction scan of find_or_create_stream_group: the group index it ends
\* with.  oldest_time starts at the largest uint64_t, written -1 here: every
\* timestamp is below it
RECURSIVE OldestGroup(_, _, _, _)
OldestGroup(t, i, oldest_idx, oldest_time) ==
  IF i >= MAX_STREAM_GROUPS THEN oldest_idx
  ELSE IF \/ t.stream_groups[i].member_count = 0
          \/ oldest_time < 0
          \/ t.stream_groups[i].last_seen_timestamp < oldest_time
       THEN OldestGroup(t, i + 1, i, t.stream_groups[i].last_seen_timestamp)
       ELSE OldestGroup(t, i + 1, oldest_idx, oldest_time)

find_or_create_stream_group(t, dir, stride) ==
  LET existing == find_stream_group(t, dir, stride)
      inv == {g \in GroupIdx : ~t.stream_groups[g].valid}
  IN
  IF existing >= 0 THEN
    [t |-> [t EXCEPT !.stream_groups[existing].last_seen_timestamp =
                        t.current_timestamp],
     idx |-> existing]
  ELSE IF inv # {} THEN
    [t |-> [t EXCEPT !.stream_groups[SetMin(inv)] = NewGroup(t, dir, stride)],
     idx |-> SetMin(inv)]
  ELSE
    LET oldest_idx == OldestGroup(t, 0, 0, -1)
        old == t.stream_groups[oldest_idx].members
        departing == {old[k] : k \in MemberIdx} \cap StreamIdx
    IN [t |-> [t EXCEPT
                 !.stream_table =
                    [s \in StreamIdx |->
                       IF s \in departing
                       THEN [t.stream_table[s] EXCEPT !.group_id = -1]
                       ELSE t.stream_table[s]],
                 !.stream_groups[oldest_idx] = NewGroup(t, dir, stride)],
        idx |-> oldest_idx]

\* add_stream_to_group that counts a stream it finds no slot for
add_stream_to_group_counting(t, stream_idx, group_idx) ==
  IF group_idx < 0 \/ group_idx >= MAX_STREAM_GROUPS THEN t
  ELSE IF stream_idx < 0 \/ stream_idx >= STREAM_TABLE_SIZE THEN t
  ELSE
    LET group == t.stream_groups[group_idx]
        free == {k \in MemberIdx : group.members[k] < 0}
    IN
    IF free # {} THEN
      [t EXCEPT
         !.stream_groups[group_idx].members[SetMin(free)] = stream_idx,
         !.stream_groups[group_idx].member_count = group.member_count + 1,
         !.stream_table[stream_idx].group_id = group_idx,
         !.stream_table[stream_idx].stream_class = group.typical_class]
    ELSE
      [t EXCEPT !.stream_table[stream_idx].group_id = group_idx,
                !.stream_groups[group_idx].member_count =
                   group.member_count + 1]

add_stream_to_group(t, stream_idx, group_idx) ==
  IF group_idx < 0 \/ group_idx >= MAX_STREAM_GROUPS THEN t
  ELSE IF stream_idx < 0 \/ stream_idx >= STREAM_TABLE_SIZE THEN t
  ELSE
    LET group == t.stream_groups[group_idx]
        free == {k \in MemberIdx : group.members[k] < 0}
    IN
    IF free # {} THEN
      [t EXCEPT
         !.stream_groups[group_idx].members[SetMin(free)] = stream_idx,
         !.stream_groups[group_idx].member_count = group.member_count + 1,
         !.stream_table[stream_idx].group_id = group_idx,
         !.stream_table[stream_idx].stream_class = group.typical_class]
    ELSE
      [t EXCEPT !.stream_table[stream_idx].group_id = group_idx]

\* remove_stream_from_group that clears the stream's group_id and leaves the
\* group's member list as it is
remove_stream_from_group_unlisted(t, stream_idx) ==
  IF stream_idx < 0 \/ stream_idx >= STREAM_TABLE_SIZE THEN t
  ELSE [t EXCEPT !.stream_table[stream_idx].group_id = -1]

remove_stream_from_group(t, stream_idx) ==
  IF stream_idx < 0 \/ stream_idx >= STREAM_TABLE_SIZE THEN t
  ELSE
    LET group_idx == t.stream_table[stream_idx].group_id IN
    IF group_idx < 0 \/ group_idx >= MAX_STREAM_GROUPS THEN
      [t EXCEPT !.stream_table[stream_idx].group_id = -1]
    ELSE
      LET group == t.stream_groups[group_idx]
          slots == {k \in MemberIdx : group.members[k] = stream_idx}
          removed ==
            IF slots = {} THEN group
            ELSE [group EXCEPT
                    !.members[SetMin(slots)] = -1,
                    !.member_count = IF group.member_count > 0
                                     THEN group.member_count - 1
                                     ELSE group.member_count]
          final == IF removed.member_count = 0
                   THEN [removed EXCEPT !.valid = FALSE]
                   ELSE removed
      IN [t EXCEPT !.stream_table[stream_idx].group_id = -1,
                   !.stream_groups[group_idx] = final]

is_group_protected(t, stream_idx) ==
  IF stream_idx < 0 \/ stream_idx >= STREAM_TABLE_SIZE THEN FALSE
  ELSE
    LET group_idx == t.stream_table[stream_idx].group_id IN
    IF group_idx < 0 \/ group_idx >= MAX_STREAM_GROUPS THEN FALSE
    ELSE t.stream_groups[group_idx].member_count >= 2

(***************************************************************************)
(* Classification                                                          *)
(***************************************************************************)
classify_stream(entry) ==
  IF entry.stride <= DENSE_STRIDE_MAX THEN
    (IF entry.stream_length >= DENSE_LENGTH_MIN THEN "DENSE" ELSE "MEDIUM")
  ELSE IF entry.stride <= MEDIUM_STRIDE_MAX THEN
    (IF entry.stream_length >= MEDIUM_LENGTH_MIN THEN "MEDIUM" ELSE "SPARSE")
  ELSE "SPARSE"

get_prefetch_degree_for_class(cls) ==
  CASE cls = "DENSE" -> DENSE_PREFETCH_DEGREE
    [] cls = "MEDIUM" -> MEDIUM_PREFETCH_DEGREE
    [] cls = "SPARSE" -> SPARSE_PREFETCH_DEGREE
    [] OTHER -> BASE_PREFETCH_DEGREE

update_stream_classification(t, stream_idx) ==
  IF stream_idx < 0 \/ stream_idx >= STREAM_TABLE_SIZE THEN t
  ELSE IF ~t.stream_table[stream_idx].valid THEN t
  ELSE
    LET entry == t.stream_table[stream_idx]
        cls == classify_stream(entry)
        t1 == [t EXCEPT !.stream_table[stream_idx].stream_class = cls]
    IN IF entry.group_id >= 0 /\ entry.group_id < MAX_STREAM_GROUPS
       THEN [t1 EXCEPT !.stream_groups[entry.group_id].typical_class = cls]
       ELSE t1

reinforce_stream_confidence(t, stream_idx) ==
  IF stream_idx < 0 \/ stream_idx >= STREAM_TABLE_SIZE THEN t
  ELSE IF ~t.stream_table[stream_idx].valid THEN t
  ELSE
    LET entry == t.stream_table[stream_idx]
        t1 == [t EXCEPT !.stream_table[stream_idx].confidence_score =
                           Min(entry.confidence_score + 1, MAX_CONFIDENCE)]
    IN IF entry.group_id >= 0 /\ entry.group_id < MAX_STREAM_GROUPS
       THEN [t1 EXCEPT !.stream_groups[entry.group_id].group_confidence =
                          @ + 1]
       ELSE t1

(***************************************************************************)
(* Phase detection                                                         *)
(***************************************************************************)
\* try_phase_recovery that leaves the transition without restoring the degree
try_phase_recovery_throttled(t) ==
  LET counter == t.phase_state.recovery_counter + 1 IN
  IF counter >= PHASE_RECOVERY_WINDOW THEN
    [t EXCEPT !.phase_state.in_phase_transition = FALSE,
              !.phase_state.recovery_counter = 0]
  ELSE [t EXCEPT !.phase_state.recovery_counter = counter]

try_phase_recovery(t) ==
  LET counter == t.phase_state.recovery_counter + 1 IN
  IF counter >= PHASE_RECOVERY_WINDOW THEN
    [t EXCEPT !.phase_state.in_phase_transition = FALSE,
              !.phase_state.current_prefetch_degree = BASE_PREFETCH_DEGREE,
              !.phase_state.recovery_counter = 0]
  ELSE [t EXCEPT !.phase_state.recovery_counter = counter]

update_phase_state(t, stream_terminated) ==
  LET p0 == t.phase_state
      p1 == [p0 EXCEPT
               !.misses_in_window = @ + 1,
               !.streams_terminated_in_window =
                  IF stream_terminated THEN @ + 1 ELSE @]
      p2 == IF p1.misses_in_window >= PHASE_WINDOW_SIZE /\
               p1.streams_terminated_in_window >= PHASE_TRANSITION_THRESHOLD
            THEN [p1 EXCEPT !.in_phase_transition = TRUE,
                            !.current_prefetch_degree = MIN_PREFETCH_DEGREE,
                            !.recovery_counter = 0]
            ELSE p1
      p3 == IF p1.misses_in_window >= PHASE_WINDOW_SIZE
            THEN [p2 EXCEPT !.window_start_timestamp = t.current_timestamp,
                            !.streams_terminated_in_window = 0,
                            !.misses_in_window = 0]
            ELSE p2
      t3 == [t EXCEPT !.phase_state = p3]
  IN IF p3.in_phase_transition THEN try_phase_recovery(t3) ELSE t3

is_in_phase_transition(t) == t.phase_state.in_phase_transition

get_current_prefetch_degree(t) == t.phase_state.current_prefetch_degree

(***************************************************************************)
(* Lookahead control                                                       *)
(***************************************************************************)
get_safe_lookahead(entry) ==
  IF entry.consistent_stride_count >= STRIDE_STABILITY_THRESHOLD THEN
    (IF entry.stream_class = "DENSE" THEN AGGRESSIVE_LOOKAHEAD
     ELSE BASE_PREFETCH_DEGREE)
  ELSE CONSERVATIVE_LOOKAHEAD

is_at_stride_boundary(entry) ==
  IF entry.direction = POSITIVE
  THEN offset(entry.current_prefetch_block, entry.stream_end_block)
         <= entry.stride
  ELSE offset(entry.stream_end_block, entry.current_prefetch_block)
         <= entry.stride

(***************************************************************************)
(* Stream table                                                            *)
(***************************************************************************)
\* whether a stream covers a block: between its start and its current
\* prefetch block, in its direction
Covers(entry, block) ==
  IF entry.direction = POSITIVE
  THEN block >= entry.stream_start_block
       /\ block <= entry.current_prefetch_block
  ELSE block <= entry.stream_start_block
       /\ block >= entry.current_prefetch_block

find_stream_for_block(t, block) ==
  LET S == {i \in StreamIdx : t.stream_table[i].valid
                              /\ Covers(t.stream_table[i], block)}
  IN IF S = {} THEN -1 ELSE SetMin(S)

find_matching_inactive_stream(t, dir, stride, region_base) ==
  LET S == {i \in StreamIdx :
              LET entry == t.stream_table[i] IN
              /\ entry.valid /\ ~entry.active
              /\ entry.direction = dir /\ entry.stride = stride
              /\ Abs(offset(region_base,
                            compute_region_base(entry.stream_start_block)))
                   <= REGION_SIZE_BLOCKS * 2}
  IN IF S = {} THEN -1 ELSE SetMin(S)

compute_eviction_priority(t, stream_idx) ==
  IF stream_idx < 0 \/ stream_idx >= STREAM_TABLE_SIZE THEN 0
  ELSE IF ~t.stream_table[stream_idx].valid THEN INT_MAX
  ELSE
    LET entry == t.stream_table[stream_idx]
        base == CASE entry.stream_class = "DENSE" -> 30
                  [] entry.stream_class = "MEDIUM" -> 20
                  [] entry.stream_class = "SPARSE" -> 10
                  [] OTHER -> 15
        grouped == IF entry.group_id >= 0 /\ entry.group_id < MAX_STREAM_GROUPS
                   THEN t.stream_groups[entry.group_id].member_count * 3
                   ELSE 0
        age == t.current_timestamp - entry.last_trigger_timestamp
    IN base + entry.confidence_score * 2 + grouped
         + (IF entry.active THEN 10 ELSE 0)
         - (IF age > DEAD_STREAM_THRESHOLD \div 2 THEN 5 ELSE 0)
         - (IF age > DEAD_STREAM_THRESHOLD THEN 10 ELSE 0)

\* select_victim_stream keeping the entry of the greatest priority
select_victim_stream_highest(t) ==
  LET inv == {i \in StreamIdx : ~t.stream_table[i].valid}
      high == {i \in StreamIdx :
                 \A j \in StreamIdx : compute_eviction_priority(t, i)
                                        >= compute_eviction_priority(t, j)}
  IN IF inv # {} THEN SetMin(inv) ELSE SetMin(high)

\* the scan returns at the first invalid entry; with none, it keeps the first
\* entry of the least priority
select_victim_stream(t) ==
  LET inv == {i \in StreamIdx : ~t.stream_table[i].valid}
      low == {i \in StreamIdx :
                /\ compute_eviction_priority(t, i) < INT_MAX
                /\ \A j \in StreamIdx : compute_eviction_priority(t, i)
                                          <= compute_eviction_priority(t, j)}
  IN IF inv # {} THEN SetMin(inv)
     ELSE IF low # {} THEN SetMin(low)
     ELSE -1

(***************************************************************************)
(* Termination and the dead-stream sweep                                   *)
(***************************************************************************)
terminate_stream(t, stream_idx) ==
  IF stream_idx < 0 \/ stream_idx >= STREAM_TABLE_SIZE THEN t
  ELSE IF ~t.stream_table[stream_idx].valid THEN t
  ELSE
    LET t1 == record_pattern(t, t.stream_table[stream_idx])
        t2 == remove_stream_from_group(t1, stream_idx)
        t3 == update_phase_state(t2, TRUE)
    IN [t3 EXCEPT !.stream_table[stream_idx].valid = FALSE,
                  !.stream_table[stream_idx].active = FALSE,
                  !.terminated = Append(@, stream_idx)]

\* the sweep's verdict without the protection of grouped streams
IsDeadUnprotected(t, i) ==
  /\ t.current_timestamp - t.stream_table[i].last_trigger_timestamp
       > DEAD_STREAM_THRESHOLD
  /\ t.stream_table[i].stream_length < SHORT_STREAM_THRESHOLD

\* the sweep's verdict on stream i at the moment it examines it
IsDead(t, i) ==
  LET entry == t.stream_table[i]
      age == t.current_timestamp - entry.last_trigger_timestamp
      is_dead == age > DEAD_STREAM_THRESHOLD
                 /\ entry.stream_length < SHORT_STREAM_THRESHOLD
  IN IF is_dead /\ is_group_protected(t, i)
        /\ entry.confidence_score >= FAST_TRACK_CONFIDENCE
     THEN FALSE
     ELSE is_dead

RECURSIVE SweepFrom(_, _)
SweepFrom(t, i) ==
  IF i >= STREAM_TABLE_SIZE THEN t
  ELSE IF ~t.stream_table[i].valid THEN SweepFrom(t, i + 1)
  ELSE IF IsDead(t, i) THEN SweepFrom(terminate_stream(t, i), i + 1)
  ELSE SweepFrom(t, i + 1)

remove_dead_streams(t) == SweepFrom(t, 0)

\* allocate_stream_entry past its sweep, when no entry is invalid: the victim
\* of select_victim_stream is terminated and returned
EvictVictim(swept, victim) ==
  IF victim >= 0
  THEN [t |-> terminate_stream(swept, victim), idx |-> victim]
  ELSE [t |-> swept, idx |-> victim]

\* allocate_stream_entry from its second scan for an invalid entry on
AllocateSwept(swept) ==
  LET inv2 == {i \in StreamIdx : ~swept.stream_table[i].valid}
  IN IF inv2 # {} THEN [t |-> swept, idx |-> SetMin(inv2)]
     ELSE EvictVictim(swept, select_victim_stream(swept))

allocate_stream_entry(t) ==
  LET inv == {i \in StreamIdx : ~t.stream_table[i].valid}
  IN IF inv # {} THEN [t |-> t, idx |-> SetMin(inv)]
     ELSE AllocateSwept(remove_dead_streams(t))

(***************************************************************************)
(* Prefetch generation                                                     *)
(***************************************************************************)
\* the host's prefetch_line: it succeeds while the prefetch queue has room
prefetch_line(t, block, fill_this_level) ==
  [t |-> [t EXCEPT
            !.room = IF t.room > 0 THEN t.room - 1 ELSE 0,
            !.calls = Append(@, [block |-> block,
                                 fill_this_level |-> fill_this_level,
                                 success |-> t.room > 0])],
   success |-> t.room > 0]

\* the degree of generate_prefetches taken from the stream's class alone
ActualDegreeByClass(t, entry) ==
  get_prefetch_degree_for_class(entry.stream_class)

\* the degree generate_prefetches settles on before its loop
ActualDegree(t, entry) ==
  LET phase_degree == get_current_prefetch_degree(t)
      class_degree == get_prefetch_degree_for_class(entry.stream_class)
      safe_lookahead == get_safe_lookahead(entry)
      actual_degree == Min(phase_degree, Min(class_degree, safe_lookahead))
  IN IF is_in_phase_transition(t)
     THEN Min(actual_degree, MIN_PREFETCH_DEGREE)
     ELSE actual_degree

\* generate_prefetches past its loop, when the loop ended or broke without
\* returning
LoopDone(t, stream_idx) ==
  [t EXCEPT !.stream_table[stream_idx].last_trigger_timestamp =
               t.current_timestamp]

\* a successful prefetch_line that leaves the stream where it is
AdvanceInPlace(t, stream_idx, next_block) == t

\* what a successful prefetch_line of next_block does to the stream
Advance(t, stream_idx, next_block) ==
  LET adv == [t EXCEPT
                !.stream_table[stream_idx].current_prefetch_block = next_block,
                !.stream_table[stream_idx].stream_length = @ + 1,
                !.stream_table[stream_idx].consistent_stride_count = @ + 1]
  IN IF adv.stream_table[stream_idx].stream_length % 8 = 0
     THEN update_stream_classification(adv, stream_idx)
     ELSE adv

\* the loop of generate_prefetches from iteration i on, and the timestamp
\* refresh that follows it unless the loop returned
RECURSIVE PrefetchLoop(_, _, _, _)
\* the loop body past the call of prefetch_line with the slot consumed
\* whatever the outcome
IssuedConsumed(line, stream_idx, i, actual_degree, next_block) ==
  IF line.success
  THEN PrefetchLoop(Advance(line.t, stream_idx, next_block), stream_idx,
                    i + 1, actual_degree)
  ELSE Advance(line.t, stream_idx, next_block)

\* the loop body past the call of prefetch_line, whose outcome is line
Issued(line, stream_idx, i, actual_degree, next_block) ==
  IF line.success
  THEN PrefetchLoop(Advance(line.t, stream_idx, next_block), stream_idx,
                    i + 1, actual_degree)
  ELSE line.t

\* the loop of generate_prefetches without its bounds check
PrefetchLoopPastEnd(t, stream_idx, i, actual_degree) ==
  IF i >= actual_degree THEN LoopDone(t, stream_idx)
  ELSE IF is_at_stride_boundary(t.stream_table[stream_idx]) /\ i > 0
  THEN LoopDone(t, stream_idx)
  ELSE IF t.mshr > 75 THEN t
  ELSE Issued(prefetch_line(t,
                            t.stream_table[stream_idx].current_prefetch_block
                              + t.stream_table[stream_idx].direction
                                  * t.stream_table[stream_idx].stride,
                            t.mshr < 50),
              stream_idx, i, actual_degree,
              t.stream_table[stream_idx].current_prefetch_block
                + t.stream_table[stream_idx].direction
                    * t.stream_table[stream_idx].stride)

PrefetchLoop(t, stream_idx, i, actual_degree) ==
  LET entry == t.stream_table[stream_idx]
      next_block == entry.current_prefetch_block
                      + entry.direction * entry.stride
      beyond == IF entry.direction = POSITIVE
                THEN next_block > entry.stream_end_block
                ELSE next_block < entry.stream_end_block
  IN
  IF i >= actual_degree THEN LoopDone(t, stream_idx)
  ELSE IF beyond THEN [t EXCEPT !.stream_table[stream_idx].active = FALSE]
  ELSE IF is_at_stride_boundary(entry) /\ i > 0 THEN LoopDone(t, stream_idx)
  ELSE IF t.mshr > 75 THEN t
  ELSE Issued(prefetch_line(t, next_block, t.mshr < 50), stream_idx, i,
              actual_degree, next_block)

generate_prefetches(t, stream_idx) ==
  LET entry == t.stream_table[stream_idx] IN
  IF ~entry.valid \/ ~entry.active THEN t
  ELSE PrefetchLoop(t, stream_idx, 0, ActualDegree(t, entry))

(***************************************************************************)
(* Stream creation and re-launch                                           *)
(***************************************************************************)
\* add_stream_to_group on the group find_or_create_stream_group returned
JoinGroup(grp, idx) == add_stream_to_group(grp.t, idx, grp.idx)

\* the entry of create_stream with the stride kept signed: the stride times
\* the direction
NewStreamSigned(t, idx, trained_entry) ==
  [t.stream_table[idx] EXCEPT
     !.valid = TRUE, !.active = TRUE,
     !.direction = trained_entry.direction,
     !.stride = trained_entry.stride * trained_entry.direction,
     !.last_trigger_timestamp = t.current_timestamp,
     !.stream_length = 0, !.reactivation_count = 0,
     !.consistent_stride_count = 0,
     !.confidence_score = Max(1, trained_entry.pattern_confidence),
     !.stream_start_block = trained_entry.last_miss_block,
     !.current_prefetch_block = trained_entry.last_miss_block,
     !.stream_end_block =
        trained_entry.last_miss_block
          + trained_entry.direction * trained_entry.stride * STREAM_EXTENT]

\* the entry create_stream writes into slot idx, before its classification
NewStream(t, idx, trained_entry) ==
  [t.stream_table[idx] EXCEPT
     !.valid = TRUE, !.active = TRUE,
     !.direction = trained_entry.direction,
     !.stride = trained_entry.stride,
     !.last_trigger_timestamp = t.current_timestamp,
     !.stream_length = 0, !.reactivation_count = 0,
     !.consistent_stride_count = 0,
     !.confidence_score = Max(1, trained_entry.pattern_confidence),
     !.stream_start_block = trained_entry.last_miss_block,
     !.current_prefetch_block = trained_entry.last_miss_block,
     !.stream_end_block =
        trained_entry.last_miss_block
          + trained_entry.direction * trained_entry.stride * STREAM_EXTENT]

Classified(entry) == [entry EXCEPT !.stream_class = classify_stream(entry)]

\* create_stream from its find_or_create_stream_group on: t holds the new
\* entry in slot idx
GroupAndPrefetch(t, idx) ==
  generate_prefetches(
    JoinGroup(find_or_create_stream_group(t, t.stream_table[idx].direction,
                                          t.stream_table[idx].stride), idx),
    idx)

\* create_stream past its call of allocate_stream_entry
CreateAt(alloc, trained_entry) ==
  IF alloc.idx < 0 THEN alloc.t
  ELSE GroupAndPrefetch(
         [alloc.t EXCEPT !.stream_table[alloc.idx] =
            Classified(NewStream(alloc.t, alloc.idx, trained_entry))],
         alloc.idx)

create_stream(t, trained_entry) ==
  CreateAt(allocate_stream_entry(t), trained_entry)

\* the entry of reactivate_stream without the confidence boost
ReactivatedUnboosted(t, entry, trigger_block) ==
  [entry EXCEPT
     !.active = TRUE,
     !.last_trigger_timestamp = t.current_timestamp,
     !.reactivation_count = @ + 1,
     !.current_prefetch_block = trigger_block]

\* the entry reactivate_stream leaves in the stream's slot
Reactivated(t, entry, trigger_block) ==
  LET new_end == trigger_block + entry.direction * entry.stride * STREAM_EXTENT
      extend == IF entry.direction = POSITIVE
                THEN new_end > entry.stream_end_block
                ELSE new_end < entry.stream_end_block
  IN [entry EXCEPT
        !.active = TRUE,
        !.last_trigger_timestamp = t.current_timestamp,
        !.reactivation_count = @ + 1,
        !.current_prefetch_block = trigger_block,
        !.confidence_score = Min(@ + CONFIDENCE_BOOST_ON_REUSE, MAX_CONFIDENCE),
        !.stream_end_block = IF extend THEN new_end ELSE @]

\* reactivate_stream from "re-add to group if needed" on
RegroupAndPrefetch(t, idx) ==
  IF t.stream_table[idx].group_id < 0
  THEN GroupAndPrefetch(t, idx)
  ELSE generate_prefetches(t, idx)

reactivate_stream(t, idx, trigger_block) ==
  RegroupAndPrefetch(
    [t EXCEPT !.stream_table[idx] =
       Reactivated(t, t.stream_table[idx], trigger_block)],
    idx)

\* try_relaunch_stream past its call of find_matching_inactive_stream
RelaunchAt(t, match_idx, miss_block) ==
  IF match_idx >= 0
  THEN [t |-> reactivate_stream(t, match_idx, miss_block), ok |-> TRUE]
  ELSE [t |-> t, ok |-> FALSE]

try_relaunch_stream(t, miss_block, dir, stride) ==
  RelaunchAt(t, find_matching_inactive_stream(
                  t, dir, stride, compute_region_base(miss_block)),
             miss_block)

(***************************************************************************)
(* The hooks of transformer_stream.  A hook returns the state it leaves    *)
(* and, for cache_operate, the metadata word it returns.                   *)
(***************************************************************************)
\* the periodic cleanup of prefetcher_cache_operate
PeriodicCleanup(t) ==
  IF t.cleanup_counter + 1 >= CLEANUP_INTERVAL
  THEN [remove_dead_streams(t) EXCEPT !.cleanup_counter = 0]
  ELSE [t EXCEPT !.cleanup_counter = @ + 1]

\* Step 1: the miss triggers the existing stream stream_idx
TriggerStream(t, stream_idx) ==
  generate_prefetches(
    reinforce_stream_confidence(
      [t EXCEPT
         !.stream_table[stream_idx] =
            [@ EXCEPT
               !.last_trigger_timestamp = t.current_timestamp,
               !.accesses_in_window = @ + 1,
               !.active = TRUE,
               !.reactivation_count =
                  IF t.stream_table[stream_idx].active THEN @ ELSE @ + 1]],
      stream_idx),
    stream_idx)

\* Step 3, a confirmed entry: re-launch a dormant stream, else create one
RelaunchOrCreate(relaunch, t, trained) ==
  IF relaunch.ok THEN relaunch.t ELSE create_stream(t, trained)

\* Step 3 without the invalidation of the confirmed training entry
ConfirmAndKeep(t, train_idx, miss_block) ==
  LET trained == t.training_table[train_idx]
      ready == \/ trained.miss_count >= CONFIRMATION_THRESHOLD
               \/ (trained.miss_count >= 2 /\ can_fast_track_training(trained))
  IN IF ready /\ trained.direction # UNKNOWN /\ trained.stride >= 1
     THEN RelaunchOrCreate(
            try_relaunch_stream(t, miss_block, trained.direction,
                                trained.stride),
            t, trained)
     ELSE t

\* Step 3: t holds the updated training entry train_idx
Confirm(t, train_idx, miss_block) ==
  LET trained == t.training_table[train_idx]
      ready == \/ trained.miss_count >= CONFIRMATION_THRESHOLD
               \/ (trained.miss_count >= 2 /\ can_fast_track_training(trained))
  IN IF ready /\ trained.direction # UNKNOWN /\ trained.stride >= 1
     THEN [RelaunchOrCreate(
             try_relaunch_stream(t, miss_block, trained.direction,
                                 trained.stride),
             t, trained)
           EXCEPT !.training_table[train_idx].valid = FALSE]
     ELSE t

\* Step 2: training, in the entry found for the region or allocated for it
TrainAt(alloc, miss_block) ==
  Confirm(update_training_entry(alloc.t, alloc.idx, miss_block), alloc.idx,
          miss_block)

TrainingSlot(t, region_base, found) ==
  IF found < 0 THEN allocate_training_entry(t, region_base)
  ELSE [t |-> t, idx |-> found]

\* prefetcher_cache_operate past its periodic cleanup
Route(t, miss_block, stream_idx) ==
  IF stream_idx >= 0 THEN TriggerStream(t, stream_idx)
  ELSE TrainAt(TrainingSlot(t, compute_region_base(miss_block),
                            find_training_entry(
                              t, compute_region_base(miss_block))),
               miss_block)

MissStep(t, miss_block) ==
  Route(t, miss_block, find_stream_for_block(t, miss_block))

\* prefetcher_cache_operate past its cache_hit test: a miss
OperateOnMiss(t, miss_block, metadata_in) ==
  [t |-> MissStep(
           PeriodicCleanup(
             update_phase_state([t EXCEPT !.current_timestamp = @ + 1],
                                FALSE)),
           miss_block),
   ret |-> metadata_in]

\* prefetcher_cache_operate without its cache_hit test: a hit trains like a
\* miss
cache_operate_untested(t, block, cache_hit, metadata_in) ==
  OperateOnMiss(t, block, metadata_in)

transformer_cache_operate(t, block, cache_hit, metadata_in) ==
  IF cache_hit THEN [t |-> t, ret |-> metadata_in]
  ELSE OperateOnMiss(t, block, metadata_in)

transformer_cache_fill(t, metadata_in) == [t |-> t, ret |-> metadata_in]

RECURSIVE CycleFrom(_, _)
CycleFrom(t, i) ==
  IF i >= STREAM_TABLE_SIZE THEN t
  ELSE IF t.stream_table[i].valid /\ t.stream_table[i].active
       THEN CycleFrom(generate_prefetches(t, i), i + 1)
       ELSE CycleFrom(t, i + 1)

transformer_cycle_operate(t) == CycleFrom(t, 0)

(***************************************************************************)
(* The selector, transformer_pythia_selector_bw.                           *)
(*                                                                         *)
(* A uint32_t metadata word is written as the set of the positions of its  *)
(* 1 bits: & is intersection, | is union and ~ is the complement in 0..31. *)
(***************************************************************************)
WordBits == 0 .. 31
METADATA_TRANSFORMER_BIT == {30}
METADATA_PYTHIA_BIT == {31}
METADATA_SOURCE_MASK == METADATA_TRANSFORMER_BIT \cup METADATA_PYTHIA_BIT
METADATA_PRESERVE_MASK == WordBits \ METADATA_SOURCE_MASK

\* POLICY_MAX [1024]; POLICY_MIN is its negative
POLICY_MAX == 2
POLICY_MIN == -POLICY_MAX
\* the literal 5000 of prefetcher_cycle_operate: cycles between two policy
\* updates [5000]
POLICY_UPDATE_INTERVAL == 2
\* the literal 100 of update_policy_selector: the issued count either source
\* needs for an update [100]
POLICY_MIN_ISSUED == 1
\* the host cache has 2^LOG2_NUM_SET sets
LOG2_NUM_SET == 3
NUM_SET == 2 ^ LOG2_NUM_SET

\* doubles are written as fractions; a comparison cross-multiplies
\* (denominators are positive)
Frac(n, d) == [num |-> n, den |-> d]
Greater(a, b) == a.num * b.den > b.num * a.den
Less(a, b) == Greater(b, a)
BW_UTIL_THRESHOLD == Frac(9, 10)
MIN_ACCURACY_THRESHOLD == Frac(1, 10)

\* a & b on non-negative integers
RECURSIVE BitAnd(_, _)
BitAnd(a, b) ==
  IF a = 0 \/ b = 0 THEN 0
  ELSE (a % 2) * (b % 2) + 2 * BitAnd(a \div 2, b \div 2)

\* champsim::lg2
RECURSIVE lg2(_)
lg2(n) == IF n <= 1 THEN 0 ELSE 1 + lg2(n \div 2)

get_set_sample_rate(num_set) ==
  IF num_set < 1024 /\ num_set >= 256 THEN 16
  ELSE IF num_set >= 64 THEN 8
  ELSE IF num_set >= 8 THEN 4
  ELSE 32

get_set_sample_category(set) ==
  LET r == get_set_sample_rate(NUM_SET)
      m == r - 1
  IN BitAnd(r + BitAnd(set, m) - BitAnd(set \div (2 ^ lg2(r)), m), m)

get_num_sampled_sets == NUM_SET \div get_set_sample_rate(NUM_SET)

is_sampler_set(set) == get_set_sample_category(set) = 0
is_transformer_dedicated_set(set) == get_set_sample_category(set) = 1
is_pythia_dedicated_set(set) == get_set_sample_category(set) = 2

\* use_transformer_for_set with a policy counter of 0 counted for Pythia
use_transformer_for_set_strict(s, set) ==
  IF is_transformer_dedicated_set(set) THEN TRUE
  ELSE IF is_pythia_dedicated_set(set) \/ is_sampler_set(set)
       THEN get_set_sample_category(set) # 2
       ELSE s.policy_selector > 0

use_transformer_for_set(s, set) ==
  IF is_transformer_dedicated_set(set) THEN TRUE
  ELSE IF is_pythia_dedicated_set(set) \/ is_sampler_set(set)
       THEN get_set_sample_category(set) # 2
       ELSE s.policy_selector >= 0

\* tagging that sets the Transformer bit and leaves the Pythia bit as it was
tag_metadata_transformer_unmasked(m) == m \cup METADATA_TRANSFORMER_BIT

tag_metadata_transformer(m) ==
  (m \cap METADATA_PRESERVE_MASK) \cup METADATA_TRANSFORMER_BIT

tag_metadata_pythia(m) ==
  (m \cap METADATA_PRESERVE_MASK) \cup METADATA_PYTHIA_BIT

sampler_entry ==
  [transformer_useful |-> 0, transformer_issued |-> 0,
   pythia_useful |-> 0, pythia_issued |-> 0]

SamplerIdx == 0 .. (get_num_sampled_sets - 1)

\* the selector after its prefetcher_initialize: the counters hold their
\* default member initialisers, the samplers are sized and the Transformer
\* is initialised.  cycles is the function-local static of
\* prefetcher_cycle_operate.
selector_initialize ==
  [pref_transformer |-> prefetcher_initialize,
   samplers |-> [i \in SamplerIdx |-> sampler_entry],
   dedicated_stats |-> sampler_entry,
   policy_selector |-> 0,
   prefetch_allowed_count |-> 0, prefetch_throttled_count |-> 0,
   high_bw_events |-> 0, low_accuracy_events |-> 0,
   transformer_selected_count |-> 0, pythia_selected_count |-> 0,
   sampler_transformer_wins |-> 0, sampler_pythia_wins |-> 0,
   cycles |-> 0]

\* the sum of one counter over the dedicated sets and every sampler
RECURSIVE SumSamplers(_, _, _)
SumSamplers(s, field, i) ==
  IF i >= get_num_sampled_sets THEN 0
  ELSE s.samplers[i][field] + SumSamplers(s, field, i + 1)

Total(s, field) == s.dedicated_stats[field] + SumSamplers(s, field, 0)

get_bandwidth_utilization(dram_bw) == Frac(dram_bw, 16)

\* get_prefetch_accuracy that reports 0.0 before any prefetch was issued
get_prefetch_accuracy_from_zero(s) ==
  Frac(Total(s, "transformer_useful") + Total(s, "pythia_useful"),
       Max(1, Total(s, "transformer_issued") + Total(s, "pythia_issued")))

get_prefetch_accuracy(s) ==
  LET useful == Total(s, "transformer_useful") + Total(s, "pythia_useful")
      issued == Total(s, "transformer_issued") + Total(s, "pythia_issued")
  IN IF issued # 0 THEN Frac(useful, issued) ELSE Frac(1, 1)

\* should_allow_prefetch that lets an accuracy equal to the bandwidth
\* utilisation pass
should_allow_prefetch_at_par(s, dram_bw) ==
  LET bw == get_bandwidth_utilization(dram_bw)
      acc == get_prefetch_accuracy(s)
      bw_ok == Less(bw, BW_UTIL_THRESHOLD)
      acc_ok == ~Less(acc, bw) \/ Greater(acc, MIN_ACCURACY_THRESHOLD)
      allow == bw_ok /\ acc_ok
  IN [s |-> [s EXCEPT
               !.high_bw_events = IF ~bw_ok THEN @ + 1 ELSE @,
               !.low_accuracy_events = IF ~acc_ok THEN @ + 1 ELSE @,
               !.prefetch_allowed_count = IF allow THEN @ + 1 ELSE @,
               !.prefetch_throttled_count = IF allow THEN @ ELSE @ + 1],
      allow |-> allow]

\* should_allow_prefetch that decides on accuracy alone
should_allow_prefetch_by_accuracy(s, dram_bw) ==
  LET bw == get_bandwidth_utilization(dram_bw)
      acc == get_prefetch_accuracy(s)
      bw_ok == Less(bw, BW_UTIL_THRESHOLD)
      acc_ok == Greater(acc, bw) \/ Greater(acc, MIN_ACCURACY_THRESHOLD)
  IN [s |-> [s EXCEPT
               !.high_bw_events = IF ~bw_ok THEN @ + 1 ELSE @,
               !.low_accuracy_events = IF ~acc_ok THEN @ + 1 ELSE @,
               !.prefetch_allowed_count = IF acc_ok THEN @ + 1 ELSE @,
               !.prefetch_throttled_count = IF acc_ok THEN @ ELSE @ + 1],
      allow |-> acc_ok]

should_allow_prefetch(s, dram_bw) ==
  LET bw == get_bandwidth_utilization(dram_bw)
      acc == get_prefetch_accuracy(s)
      bw_ok == Less(bw, BW_UTIL_THRESHOLD)
      acc_ok == Greater(acc, bw) \/ Greater(acc, MIN_ACCURACY_THRESHOLD)
      allow == bw_ok /\ acc_ok
  IN [s |-> [s EXCEPT
               !.high_bw_events = IF ~bw_ok THEN @ + 1 ELSE @,
               !.low_accuracy_events = IF ~acc_ok THEN @ + 1 ELSE @,
               !.prefetch_allowed_count = IF allow THEN @ + 1 ELSE @,
               !.prefetch_throttled_count = IF allow THEN @ ELSE @ + 1],
      allow |-> allow]

\* the counter update shared by cache_operate (field suffix "useful") and
\* cache_fill (suffix "issued"): which counter a set's event is added to
Credit(s, set, transformer_field, pythia_field) ==
  LET idx == set \div get_set_sample_rate(NUM_SET) IN
  IF is_sampler_set(set) THEN
    (IF idx < get_num_sampled_sets
     THEN [s EXCEPT !.samplers[idx][transformer_field] = @ + 1]
     ELSE s)
  ELSE IF is_transformer_dedicated_set(set) THEN
    [s EXCEPT !.dedicated_stats[transformer_field] = @ + 1]
  ELSE IF is_pythia_dedicated_set(set) THEN
    [s EXCEPT !.dedicated_stats[pythia_field] = @ + 1]
  ELSE IF s.policy_selector >= 0 THEN
    [s EXCEPT !.dedicated_stats[transformer_field] = @ + 1]
  ELSE
    [s EXCEPT !.dedicated_stats[pythia_field] = @ + 1]

\* which underlying prefetcher cache_operate forwards to when it is allowed
SelectsTransformer(s, set) ==
  is_sampler_set(set) \/ use_transformer_for_set(s, set)

\* cache_operate forwards to the Transformer, whose call returned fwd
ForwardTransformer(s, fwd) ==
  [s |-> [s EXCEPT !.transformer_selected_count = @ + 1,
                   !.pref_transformer = fwd.t],
   ret |-> tag_metadata_transformer(fwd.ret),
   called |-> "transformer"]

\* cache_operate past its call of should_allow_prefetch, which returned gate
Gated(gate, set, block, cache_hit, metadata_in, pythia_ret) ==
  IF ~gate.allow THEN
    [s |-> gate.s, ret |-> metadata_in, called |-> "none"]
  ELSE IF SelectsTransformer(gate.s, set) THEN
    ForwardTransformer(
      gate.s,
      transformer_cache_operate(gate.s.pref_transformer, block, cache_hit,
                                metadata_in))
  ELSE
    [s |-> [gate.s EXCEPT !.pythia_selected_count = @ + 1],
     ret |-> tag_metadata_pythia(pythia_ret),
     called |-> "pythia"]

\* the useful-prefetch accounting at the head of cache_operate
CountUseful(s, set, cache_hit, useful_prefetch) ==
  IF useful_prefetch /\ cache_hit
  THEN Credit(s, set, "transformer_useful", "pythia_useful")
  ELSE s

\* pythia_ret is the word Pythia's cache_operate returns, should it be called
selector_cache_operate(s, block, cache_hit, useful_prefetch, metadata_in, dram_bw, pythia_ret) ==
  Gated(should_allow_prefetch(
          CountUseful(s, BitAnd(block, NUM_SET - 1), cache_hit,
                      useful_prefetch),
          dram_bw),
        BitAnd(block, NUM_SET - 1), block, cache_hit, metadata_in, pythia_ret)

selector_cache_fill(s, set, prefetch, metadata_in) ==
  [s |-> [(IF prefetch
           THEN Credit(s, set, "transformer_issued", "pythia_issued")
           ELSE s)
          EXCEPT !.pref_transformer = transformer_cache_fill(@, metadata_in).t],
   ret |-> metadata_in]

\* 1000 * ln(n), rounded, for n = 1 .. 13
LnMilli == <<0, 693, 1099, 1386, 1609, 1792, 1946, 2079, 2197, 2303, 2398,
             2485, 2565>>

\* score = (useful / issued) * (1 + ln(1 + useful)), in thousandths and
\* before the division by issued
ScoreTimesIssued(useful) == useful * (1000 + LnMilli[1 + useful])

\* a_s > b_s * 1.05 for the scores of (a_u, a_i) and (b_u, b_i)
Beats(a_u, a_i, b_u, b_i) ==
  ScoreTimesIssued(a_u) * b_i * 100 > ScoreTimesIssued(b_u) * a_i * 105

\* update_policy_selector without std::min and std::max
update_policy_selector_unclamped(s) ==
  LET t_u == Total(s, "transformer_useful")
      t_i == Total(s, "transformer_issued")
      p_u == Total(s, "pythia_useful")
      p_i == Total(s, "pythia_issued")
  IN IF t_i < POLICY_MIN_ISSUED \/ p_i < POLICY_MIN_ISSUED THEN s
     ELSE IF Beats(t_u, t_i, p_u, p_i) THEN
       [s EXCEPT !.policy_selector = s.policy_selector + 1,
                 !.sampler_transformer_wins = @ + 1]
     ELSE IF Beats(p_u, p_i, t_u, t_i) THEN
       [s EXCEPT !.policy_selector = s.policy_selector - 1,
                 !.sampler_pythia_wins = @ + 1]
     ELSE s

update_policy_selector(s) ==
  LET t_u == Total(s, "transformer_useful")
      t_i == Total(s, "transformer_issued")
      p_u == Total(s, "pythia_useful")
      p_i == Total(s, "pythia_issued")
  IN IF t_i < POLICY_MIN_ISSUED \/ p_i < POLICY_MIN_ISSUED THEN s
     ELSE IF Beats(t_u, t_i, p_u, p_i) THEN
       [s EXCEPT !.policy_selector = Min(s.policy_selector + 1, POLICY_MAX),
                 !.sampler_transformer_wins = @ + 1]
     ELSE IF Beats(p_u, p_i, t_u, t_i) THEN
       [s EXCEPT !.policy_selector = Max(s.policy_selector - 1, POLICY_MIN),
                 !.sampler_pythia_wins = @ + 1]
     ELSE s

\* prefetcher_cycle_operate past its policy update
CycleForward(s) ==
  [s EXCEPT !.pref_transformer = transformer_cycle_operate(@)]

\* prefetcher_cycle_operate without its policy update
CycleTickIdle(s) == CycleForward(s)

\* prefetcher_cycle_operate past ++cycles
CycleTick(s) ==
  CycleForward(IF s.cycles % POLICY_UPDATE_INTERVAL = 0
               THEN update_policy_selector(s)
               ELSE s)

selector_cycle_operate(s) == CycleTick([s EXCEPT !.cycles = @ + 1])

(***************************************************************************)
(* State: the fields of the Transformer prefetcher, the fields of the      *)
(* selector that owns it, and last, the record of the latest hook call:    *)
(* its arguments, the host's DRAM bandwidth reading at the call, what it   *)
(* returned, which underlying prefetcher the selector forwarded to, the    *)
(* prefetch_line calls the Transformer made and the streams it terminated. *)
(* pos is the workload's position: how many blocks each of the access      *)
(* streams of the running program has missed on so far.                    *)
(***************************************************************************)
VARIABLES training_table, stream_table, stream_groups, pattern_history,
          pattern_history_head, phase_state, current_timestamp,
          cleanup_counter,
          samplers, dedicated_stats, policy_selector,
          prefetch_allowed_count, prefetch_throttled_count, high_bw_events,
          low_accuracy_events, transformer_selected_count,
          pythia_selected_count, sampler_transformer_wins,
          sampler_pythia_wins, cycles,
          last, pos

tvars == <<training_table, stream_table, stream_groups, pattern_history,
           pattern_history_head, phase_state, current_timestamp,
           cleanup_counter>>

svars == <<samplers, dedicated_stats, policy_selector,
           prefetch_allowed_count, prefetch_throttled_count, high_bw_events,
           low_accuracy_events, transformer_selected_count,
           pythia_selected_count, sampler_transformer_wins,
           sampler_pythia_wins, cycles>>

vars == <<tvars, svars, last, pos>>

\* the Transformer prefetcher as it stands, between two hook calls
T ==
  [training_table |-> training_table, stream_table |-> stream_table,
   stream_groups |-> stream_groups, pattern_history |-> pattern_history,
   pattern_history_head |-> pattern_history_head,
   phase_state |-> phase_state, current_timestamp |-> current_timestamp,
   cleanup_counter |-> cleanup_counter,
   mshr |-> 0, room |-> 0, calls |-> << >>, terminated |-> << >>]

\* the selector as it stands
S ==
  [pref_transformer |-> T, samplers |-> samplers,
   dedicated_stats |-> dedicated_stats, policy_selector |-> policy_selector,
   prefetch_allowed_count |-> prefetch_allowed_count,
   prefetch_throttled_count |-> prefetch_throttled_count,
   high_bw_events |-> high_bw_events,
   low_accuracy_events |-> low_accuracy_events,
   transformer_selected_count |-> transformer_selected_count,
   pythia_selected_count |-> pythia_selected_count,
   sampler_transformer_wins |-> sampler_transformer_wins,
   sampler_pythia_wins |-> sampler_pythia_wins, cycles |-> cycles]

\* the host's answers during one hook call: the MSHR occupancy, in percent,
\* and the room in the prefetch queue
Host(t, mshr, room) ==
  [t EXCEPT !.mshr = mshr, !.room = room, !.calls = << >>,
            !.terminated = << >>]

BecomeT(t) ==
  /\ training_table' = t.training_table
  /\ stream_table' = t.stream_table
  /\ stream_groups' = t.stream_groups
  /\ pattern_history' = t.pattern_history
  /\ pattern_history_head' = t.pattern_history_head
  /\ phase_state' = t.phase_state
  /\ current_timestamp' = t.current_timestamp
  /\ cleanup_counter' = t.cleanup_counter

BecomeS(s) ==
  /\ BecomeT(s.pref_transformer)
  /\ samplers' = s.samplers
  /\ dedicated_stats' = s.dedicated_stats
  /\ policy_selector' = s.policy_selector
  /\ prefetch_allowed_count' = s.prefetch_allowed_count
  /\ prefetch_throttled_count' = s.prefetch_throttled_count
  /\ high_bw_events' = s.high_bw_events
  /\ low_accuracy_events' = s.low_accuracy_events
  /\ transformer_selected_count' = s.transformer_selected_count
  /\ pythia_selected_count' = s.pythia_selected_count
  /\ sampler_transformer_wins' = s.sampler_transformer_wins
  /\ sampler_pythia_wins' = s.sampler_pythia_wins
  /\ cycles' = s.cycles

Call(op, block, hit, useful, metadata_in, ret, bw, called, t) ==
  [op |-> op, block |-> block, hit |-> hit, useful |-> useful,
   metadata_in |-> metadata_in, ret |-> ret, bw |-> bw, called |-> called,
   calls |-> t.calls, terminated |-> t.terminated]

(***************************************************************************)
(* The workload and the host.  The running program reads through a few     *)
(* arrays at once (the heads of an attention layer): head h misses on      *)
(* HeadBase[h], HeadBase[h] + 1, ... in turn, and the heads interleave     *)
(* freely.  The second and third arrays lie in neighbouring regions, the   *)
(* first one far from both.                                                *)
(***************************************************************************)
HeadBase == <<0, 16, 20>>
Heads == 1 .. 3
\* how far the first head, and the other heads, read
LongRun == 6
ShortRun == 3
HeadLen == <<LongRun, ShortRun, ShortRun>>
\* misses within one run of the Transformer on its own: under every host
\* answer (MaxTimeT), and with a host that takes every prefetch (MaxTime)
MaxTimeT == 6
MaxTime == 12

\* MSHR occupancy, in percent: below 50, between 50 and 75, above 75
MshrLevels == {30, 60, 80}
\* room in the prefetch queue at the start of a hook call
Rooms == {0, 1}
\* metadata words
Words == {{0, 30}, {29, 31}}
\* the word Pythia returns in the general runs: one carrying the
\* Transformer's bit
PythiaWords == {{0, 30}}
\* get_dram_bw(): a reading in 0 .. 15
BwLevels == {8, 15}
\* the blocks of one region, one in a set of each kind: policy-controlled,
\* sampler, Transformer-dedicated and Pythia-dedicated
SelBlocks == {4, 5, 6, 7}
\* what the host reports of an access: <<cache_hit, useful_prefetch>>; a
\* useful prefetch is a hit
Accesses == {<<FALSE, FALSE>>, <<TRUE, FALSE>>, <<TRUE, TRUE>>}
\* calls of the selector's hooks within one run: cache_operate, cache_fill
\* of a prefetched line, and cycle_operate
MaxOps == 3
MaxIssued == 1
MaxCycles == 1
\* the same within a run of hits at moderate bandwidth, which lets the
\* policy counter move
MaxHits == 2
MaxIssuedPolicy == 2
MaxCyclesPolicy == 6
\* prefetched lines filled within a run that probes the throttle
MaxIssuedGate == 10
\* the bandwidth readings of that run, and the blocks it touches: one in a
\* sampler set and one in a Pythia-dedicated set
GateBw == {0, 1, 2, 8, 14, 15}
GateBlocks == {5, 7}

Init ==
  /\ training_table = prefetcher_initialize.training_table
  /\ stream_table = prefetcher_initialize.stream_table
  /\ stream_groups = prefetcher_initialize.stream_groups
  /\ pattern_history = prefetcher_initialize.pattern_history
  /\ pattern_history_head = prefetcher_initialize.pattern_history_head
  /\ phase_state = prefetcher_initialize.phase_state
  /\ current_timestamp = prefetcher_initialize.current_timestamp
  /\ cleanup_counter = prefetcher_initialize.cleanup_counter
  /\ samplers = selector_initialize.samplers
  /\ dedicated_stats = selector_initialize.dedicated_stats
  /\ policy_selector = selector_initialize.policy_selector
  /\ prefetch_allowed_count = selector_initialize.prefetch_allowed_count
  /\ prefetch_throttled_count = selector_initialize.prefetch_throttled_count
  /\ high_bw_events = selector_initialize.high_bw_events
  /\ low_accuracy_events = selector_initialize.low_accuracy_events
  /\ transformer_selected_count = selector_initialize.transformer_selected_count
  /\ pythia_selected_count = selector_initialize.pythia_selected_count
  /\ sampler_transformer_wins = selector_initialize.sampler_transformer_wins
  /\ sampler_pythia_wins = selector_initialize.sampler_pythia_wins
  /\ cycles = selector_initialize.cycles
  /\ last = Call("initialize", 0, FALSE, FALSE, {}, {}, 0, "none",
                 prefetcher_initialize)
  /\ pos = [h \in Heads |-> 0]

(***************************************************************************)
(* The hooks as the host calls them: on the Transformer prefetcher used    *)
(* on its own, and on the selector.                                        *)
(***************************************************************************)
\* a hook of the Transformer returns: t is the state it leaves
TsReturn(t, op, block, cache_hit, metadata_in, ret) ==
  /\ BecomeT(t)
  /\ UNCHANGED svars
  /\ last' = Call(op, block, cache_hit, FALSE, metadata_in, ret, 0, "none", t)

\* cache_operate of the Transformer returns r
TsOperated(r, block, cache_hit, metadata_in) ==
  TsReturn(r.t, "ts_cache_operate", block, cache_hit, metadata_in, r.ret)

TsCacheOperate(block, cache_hit, metadata_in, mshr, room) ==
  TsOperated(transformer_cache_operate(Host(T, mshr, room), block, cache_hit,
                                       metadata_in),
             block, cache_hit, metadata_in)

TsCycleOperate(mshr, room) ==
  TsReturn(transformer_cycle_operate(Host(T, mshr, room)),
           "ts_cycle_operate", 0, FALSE, {}, {})

\* a hook of the selector returns: s is the state it leaves
SelReturn(s, op, block, cache_hit, useful, metadata_in, ret, dram_bw, called) ==
  /\ BecomeS(s)
  /\ last' = Call(op, block, cache_hit, useful, metadata_in, ret, dram_bw,
                  called, s.pref_transformer)

\* cache_operate or cache_fill of the selector returns r
SelReturned(r, op, block, cache_hit, useful, metadata_in, dram_bw, called) ==
  SelReturn(r.s, op, block, cache_hit, useful, metadata_in, r.ret, dram_bw,
            called)

\* cache_operate of the selector returns r
SelOperated(r, block, cache_hit, useful_prefetch, metadata_in, dram_bw) ==
  SelReturned(r, "cache_operate", block, cache_hit, useful_prefetch,
              metadata_in, dram_bw, r.called)

\* the selector, with the host's answers for the hook call under way
HostS(mshr, room) == [S EXCEPT !.pref_transformer = Host(T, mshr, room)]

SelCacheOperate(block, cache_hit, useful_prefetch, metadata_in, dram_bw, pythia_ret, mshr, room) ==
  SelOperated(selector_cache_operate(HostS(mshr, room), block, cache_hit,
                                     useful_prefetch, metadata_in, dram_bw,
                                     pythia_ret),
              block, cache_hit, useful_prefetch, metadata_in, dram_bw)

SelCacheFill(set, prefetch, metadata_in, dram_bw) ==
  SelReturned(selector_cache_fill(HostS(0, 0), set, prefetch, metadata_in),
              "cache_fill", set, FALSE, prefetch, metadata_in, dram_bw, "both")

SelCycleOperate(dram_bw, mshr, room) ==
  SelReturn(selector_cycle_operate(HostS(mshr, room)), "cycle_operate", 0,
            FALSE, FALSE, {}, {}, dram_bw, "both")

(***************************************************************************)
(* The Transformer prefetcher on its own.                                  *)
(***************************************************************************)
\* head h misses on its next block
HeadMiss(h, mshr, room) ==
  /\ pos[h] < HeadLen[h]
  /\ TsCacheOperate(HeadBase[h] + pos[h], FALSE, {}, mshr, room)
  /\ pos' = [pos EXCEPT ![h] = @ + 1]

\* head h hits on the block it missed on last
HeadHit(h, metadata_in) ==
  /\ pos[h] > 0
  /\ TsCacheOperate(HeadBase[h] + pos[h] - 1, TRUE, metadata_in, 30, 1)
  /\ UNCHANGED pos

NextT ==
  \/ \E h \in Heads, mshr \in MshrLevels, room \in Rooms :
        current_timestamp < MaxTimeT /\ HeadMiss(h, mshr, room)
  \/ \E h \in Heads, metadata_in \in Words : HeadHit(h, metadata_in)
  \/ \E mshr \in MshrLevels, room \in Rooms :
        TsCycleOperate(mshr, room) /\ UNCHANGED pos

SpecT == Init /\ [][NextT]_vars

\* longer runs, with a host that takes every prefetch
NextSweep ==
  \/ \E h \in Heads : current_timestamp < MaxTime /\ HeadMiss(h, 30, 1)
  \/ TsCycleOperate(30, 1) /\ UNCHANGED pos

SpecSweep == Init /\ [][NextSweep]_vars

\* misses only, with a host that takes every prefetch and is never called
\* for a cycle
NextRun == \E h \in Heads : current_timestamp < MaxTime /\ HeadMiss(h, 30, 1)

SpecRun == Init /\ [][NextRun]_vars

\* the first head reads every fourth block instead: each of its misses
\* falls in a region of its own
StrideRun == <<32, 36, 40, 44>>

StrideMiss(mshr, room) ==
  /\ pos[1] < Len(StrideRun)
  /\ TsCacheOperate(StrideRun[pos[1] + 1], FALSE, {}, mshr, room)
  /\ pos' = [pos EXCEPT ![1] = @ + 1]

NextStride ==
  \/ StrideMiss(30, 1)
  \/ \E h \in Heads \ {1} : HeadMiss(h, 30, 1)

SpecStride == Init /\ [][NextStride]_vars

\* a scan that comes back to an array it has read: three blocks of one
\* array, three of the array just below it, three of each of three arrays far
\* away, and then two blocks of an array next to the first
ReuseRun == <<16, 17, 18, 8, 9, 10, 32, 33, 34, 48, 49, 50, 64, 65, 66, 24, 25>>
\* room in the prefetch queue during that scan
ReuseRooms == {1, 2}

ReuseMiss(mshr, room) ==
  /\ pos[1] < Len(ReuseRun)
  /\ TsCacheOperate(ReuseRun[pos[1] + 1], FALSE, {}, mshr, room)
  /\ pos' = [pos EXCEPT ![1] = @ + 1]

NextReuse ==
  \/ \E room \in ReuseRooms : ReuseMiss(30, room)
  \/ \E room \in ReuseRooms : TsCycleOperate(30, room) /\ UNCHANGED pos

SpecReuse == Init /\ [][NextReuse]_vars

\* four arrays read in turn, the first two for six blocks each, the last two
\* for three blocks each and together: more streams than the stream table
\* holds
PressureRun == <<0, 1, 2, 3, 4, 5, 16, 17, 18, 19, 20, 21, 32, 33, 48, 49, 34, 50>>

PressureMiss(mshr, room) ==
  /\ pos[1] < Len(PressureRun)
  /\ TsCacheOperate(PressureRun[pos[1] + 1], FALSE, {}, mshr, room)
  /\ pos' = [pos EXCEPT ![1] = @ + 1]

NextPressure ==
  \/ \E room \in Rooms : PressureMiss(30, room)
  \/ \E room \in Rooms : TsCycleOperate(30, room) /\ UNCHANGED pos

SpecPressure == Init /\ [][NextPressure]_vars

\* misses in any order on the blocks of one region and the start of the
\* next: ascending, descending, repeated and scattered accesses
AnyBlocks == {0, 1, 2, 3, 4, 5}

NextAny ==
  \/ \E block \in AnyBlocks, room \in Rooms :
        /\ current_timestamp < MaxTimeT
        /\ TsCacheOperate(block, FALSE, {}, 30, room)
        /\ UNCHANGED pos
  \/ \E room \in Rooms : TsCycleOperate(30, room) /\ UNCHANGED pos

SpecAny == Init /\ [][NextAny]_vars

(***************************************************************************)
(* The selector.                                                           *)
(***************************************************************************)
\* prefetched lines filled so far
IssuedSoFar == Total(S, "transformer_issued") + Total(S, "pythia_issued")

\* cache_operate calls so far
OpsSoFar == prefetch_allowed_count + prefetch_throttled_count

Next ==
  \/ \E block \in SelBlocks, a \in Accesses, metadata_in \in Words,
        dram_bw \in BwLevels, pythia_ret \in PythiaWords :
        /\ OpsSoFar < MaxOps
        /\ SelCacheOperate(block, a[1], a[2], metadata_in, dram_bw,
                           pythia_ret, 30, 1)
        /\ UNCHANGED pos
  \/ \E block \in SelBlocks, prefetch \in BOOLEAN, dram_bw \in BwLevels :
        /\ IssuedSoFar < MaxIssued
        /\ SelCacheFill(BitAnd(block, NUM_SET - 1), prefetch, {}, dram_bw)
        /\ UNCHANGED pos
  \/ \E dram_bw \in BwLevels, room \in Rooms :
        /\ cycles < MaxCycles
        /\ SelCycleOperate(dram_bw, 30, room)
        /\ UNCHANGED pos

Spec == Init /\ [][Next]_vars

\* hits at moderate bandwidth, fills of prefetched lines, and cycles
NextPolicy ==
  \/ \E block \in SelBlocks, useful_prefetch \in BOOLEAN,
        metadata_in \in Words, pythia_ret \in Words :
        /\ OpsSoFar < MaxHits
        /\ SelCacheOperate(block, TRUE, useful_prefetch, metadata_in, 8,
                           pythia_ret, 30, 1)
        /\ UNCHANGED pos
  \/ \E block \in SelBlocks :
        /\ IssuedSoFar < MaxIssuedPolicy
        /\ SelCacheFill(BitAnd(block, NUM_SET - 1), TRUE, {}, 8)
        /\ UNCHANGED pos
  \/ /\ cycles < MaxCyclesPolicy
     /\ SelCycleOperate(8, 30, 1)
     /\ UNCHANGED pos

SpecPolicy == Init /\ [][NextPolicy]_vars

\* the host calls cycle_operate once per cycle of the cache: the calls go on
\* for as long as the run lasts, which is long enough for the policy counter
\* to climb from 0 to POLICY_MAX and meet one update more
SaturateCycles == POLICY_UPDATE_INTERVAL * (POLICY_MAX + 1)

PolicyCycle ==
  /\ cycles < SaturateCycles
  /\ SelCycleOperate(8, 30, 1)
  /\ UNCHANGED pos

NextSaturate ==
  \/ \E block \in SelBlocks, useful_prefetch \in BOOLEAN,
        metadata_in \in Words, pythia_ret \in Words :
        /\ OpsSoFar < MaxHits
        /\ SelCacheOperate(block, TRUE, useful_prefetch, metadata_in, 8,
                           pythia_ret, 30, 1)
        /\ UNCHANGED pos
  \/ \E block \in SelBlocks :
        /\ IssuedSoFar < MaxIssuedPolicy
        /\ SelCacheFill(BitAnd(block, NUM_SET - 1), TRUE, {}, 8)
        /\ UNCHANGED pos
  \/ PolicyCycle

SpecSaturate == Init /\ [][NextSaturate]_vars /\ WF_vars(PolicyCycle)

\* two selectors in one process, one per cache.  The counter of
\* prefetcher_cycle_operate is a static local of the member function: the
\* two instances count on the same object.  The state is that of the first
\* instance; pos[1] counts the cycle_operate calls the host has made on it.
ThisCycle ==
  /\ cycles < MaxCyclesPolicy
  /\ SelCycleOperate(8, 30, 1)
  /\ pos' = [pos EXCEPT ![1] = @ + 1]

\* cycle_operate of the other instance: it counts, and a policy update it
\* runs is on its own fields
OtherCycle ==
  /\ cycles < MaxCyclesPolicy
  /\ cycles' = cycles + 1
  /\ UNCHANGED <<tvars, samplers, dedicated_stats, policy_selector,
                 prefetch_allowed_count, prefetch_throttled_count,
                 high_bw_events, low_accuracy_events,
                 transformer_selected_count, pythia_selected_count,
                 sampler_transformer_wins, sampler_pythia_wins, last, pos>>

NextShared ==
  \/ \E block \in SelBlocks, useful_prefetch \in BOOLEAN,
        metadata_in \in Words, pythia_ret \in Words :
        /\ OpsSoFar < MaxHits
        /\ SelCacheOperate(block, TRUE, useful_prefetch, metadata_in, 8,
                           pythia_ret, 30, 1)
        /\ UNCHANGED pos
  \/ \E block \in SelBlocks :
        /\ IssuedSoFar < MaxIssuedPolicy
        /\ SelCacheFill(BitAnd(block, NUM_SET - 1), TRUE, {}, 8)
        /\ UNCHANGED pos
  \/ ThisCycle
  \/ OtherCycle

SpecShared == Init /\ [][NextShared]_vars

\* hits under every bandwidth reading, after any number of fills
NextGate ==
  \/ \E block \in GateBlocks, useful_prefetch \in BOOLEAN,
        dram_bw \in GateBw :
        /\ OpsSoFar < MaxHits
        /\ SelCacheOperate(block, TRUE, useful_prefetch, {}, dram_bw, {}, 30,
                           1)
        /\ UNCHANGED pos
  \/ \E block \in GateBlocks :
        /\ IssuedSoFar < MaxIssuedGate
        /\ SelCacheFill(BitAnd(block, NUM_SET - 1), TRUE, {}, 8)
        /\ UNCHANGED pos

SpecGate == Init /\ [][NextGate]_vars

(***************************************************************************)
(* The sample rate of a selector attached to a cache of num_set sets.      *)
(***************************************************************************)
\* the largest cache tried
MaxNumSet == 2048

\* get_set_sample_rate is called on a selector whose NUM_SET is num_set
SampleRateCall(num_set) ==
  /\ last' = Call("get_set_sample_rate", num_set, FALSE, FALSE, {},
                  get_set_sample_rate(num_set), 0, "none", T)
  /\ UNCHANGED <<tvars, svars, pos>>

NextRate == \E num_set \in 1 .. MaxNumSet : SampleRateCall(num_set)

SpecRate == Init /\ [][NextRate]_vars

(***************************************************************************)
(* The selector's accounting in its sampler sets: useful hits and fills of *)
(* prefetched lines whose metadata names either source.                    *)
(***************************************************************************)
\* one block in each sampler set
SamplerBlocks == {0, 5}

NextSampler ==
  \/ \E block \in SamplerBlocks, useful_prefetch \in BOOLEAN,
        metadata_in \in Words :
        /\ OpsSoFar < MaxHits
        /\ SelCacheOperate(block, TRUE, useful_prefetch, metadata_in, 8, {},
                           30, 1)
        /\ UNCHANGED pos
  \/ \E block \in SamplerBlocks, prefetch \in BOOLEAN, metadata_in \in Words :
        /\ IssuedSoFar < MaxIssuedPolicy
        /\ SelCacheFill(BitAnd(block, NUM_SET - 1), prefetch, metadata_in, 8)
        /\ UNCHANGED pos

SpecSampler == Init /\ [][NextSampler]_vars

\* is_noise on its own, on every pair of gaps of at most MaxGap blocks
\* either way
MaxGap == 5

NoiseCall(gap1, gap2) ==
  /\ last' = Call("is_noise", <<gap1, gap2>>, FALSE, FALSE, {},
                  is_noise(gap1, gap2), 0, "none", T)
  /\ UNCHANGED <<tvars, svars, pos>>

NextNoise == \E gap1, gap2 \in -MaxGap .. MaxGap : NoiseCall(gap1, gap2)

SpecNoise == Init /\ [][NextNoise]_vars

(***************************************************************************)
(* A host that takes every prefetch and keeps calling cycle_operate.       *)
(***************************************************************************)
\* room for every prefetch one hook call can ask for
DrainRoom == STREAM_TABLE_SIZE * AGGRESSIVE_LOOKAHEAD
\* MSHR occupancies of 0.75 or less, in percent
DrainMshr == {30, 60}

DrainCycle == \E mshr \in DrainMshr : TsCycleOperate(mshr, DrainRoom) /\ UNCHANGED pos

\* the misses of ReuseRun, and cycle_operate calls at any time and for ever
NextDrain ==
  \/ ReuseMiss(30, DrainRoom)
  \/ DrainCycle

\* stream i is valid and active
ActiveStream(i) == stream_table[i].valid /\ stream_table[i].active

\* a cycle_operate call that finds no active stream changes nothing: the
\* latest call was such a call
CycleIdle ==
  /\ last.op = "ts_cycle_operate"
  /\ \A i \in StreamIdx : ~ActiveStream(i)

\* the step is a cycle_operate call
CycleCalled == last'.op = "ts_cycle_operate"

\* cycle_operate keeps being called: its calls change the state again and
\* again, unless they have nothing left to change.  This is the weak
\* fairness of DrainCycle, with the states where a call changes nothing
\* written as the predicate CycleIdle.
CycleKeepsBeingCalled == []<>CycleIdle \/ []<><<CycleCalled>>_vars

SpecDrain == Init /\ [][NextDrain]_vars /\ CycleKeepsBeingCalled

(***************************************************************************)
(* Properties                                                              *)
(***************************************************************************)

\* C1: every valid stream with group_id >= 0 refers to a valid group whose
\* member list holds that stream's index exactly once, also when more than
\* MAX_STREAMS_PER_GROUP streams share one direction and stride.
GroupedStreamIsListedOnce ==
  \A i \in StreamIdx :
    (stream_table[i].valid /\ stream_table[i].group_id >= 0) =>
      /\ stream_table[i].group_id \in GroupIdx
      /\ stream_groups[stream_table[i].group_id].valid
      /\ Cardinality({k \in MemberIdx :
           stream_groups[stream_table[i].group_id].members[k] = i}) = 1

\* C2: the current_prefetch_block of every valid stream lies between its
\* stream_start_block and its stream_end_block, both included, in the
\* stream's direction, also after a dormant stream was launched again.
PrefetchBlockWithinStream ==
  \A i \in StreamIdx :
    stream_table[i].valid =>
      IF stream_table[i].direction = POSITIVE
      THEN /\ stream_table[i].stream_start_block
                <= stream_table[i].current_prefetch_block
           /\ stream_table[i].current_prefetch_block
                <= stream_table[i].stream_end_block
      ELSE /\ stream_table[i].stream_end_block
                <= stream_table[i].current_prefetch_block
           /\ stream_table[i].current_prefetch_block
                <= stream_table[i].stream_start_block

\* C3: remove_dead_streams is idempotent: run twice in a row with no call in
\* between, from any state the prefetcher reaches, the second run terminates
\* no stream and leaves the state of the first run.
SweepIsIdempotent ==
  remove_dead_streams(remove_dead_streams(T)) = remove_dead_streams(T)

\* a stream's fields other than last_trigger_timestamp
Untriggered(entry) == [entry EXCEPT !.last_trigger_timestamp = 0]

\* C4: a cache_operate of the Transformer with cache_hit true returns
\* metadata_in, leaves current_timestamp, the training table and the phase
\* state as they were, changes no field of a stream other than
\* last_trigger_timestamp, and calls prefetch_line not once.
HitLeavesTrainingAlone ==
  [][(last'.op = "ts_cache_operate" /\ last'.hit) =>
       /\ last'.ret = last'.metadata_in
       /\ current_timestamp' = current_timestamp
       /\ training_table' = training_table
       /\ phase_state' = phase_state
       /\ \A i \in StreamIdx :
            Untriggered(stream_table'[i]) = Untriggered(stream_table[i])
       /\ last'.calls = << >>]_vars

\* a hit on a block that an active stream covers
HitInsideActiveStream ==
  /\ last.op = "ts_cache_operate"
  /\ last.hit
  /\ last.metadata_in # {}
  /\ \E i \in StreamIdx :
       /\ stream_table[i].valid
       /\ stream_table[i].active
       /\ stream_table[i].stream_start_block <= last.block
       /\ last.block <= stream_table[i].stream_end_block

\* C5: policy_selector stays within POLICY_MIN and POLICY_MAX after any run
\* of cycle_operate calls and policy updates.
PolicyWithinLimits == policy_selector \in POLICY_MIN .. POLICY_MAX

\* the Transformer has won more updates than the counter can hold
PolicySaturated ==
  /\ last.op = "cycle_operate"
  /\ policy_selector = POLICY_MAX
  /\ sampler_transformer_wins > POLICY_MAX

\* the words the tagging functions are tried on: every combination of the
\* two source bits with the lowest and the highest of the other bits
TagWords == SUBSET {0, 29, 30, 31}

\* C6: tag_metadata_transformer and tag_metadata_pythia keep bits 0..29 of
\* their argument and leave exactly one of the bits 30 and 31 set, so the
\* word returned by a cache_operate of the selector that was not throttled
\* carries exactly one source bit.
TaggingLeavesOneSource ==
  /\ \A m \in TagWords :
       /\ tag_metadata_transformer(m) \ METADATA_SOURCE_MASK
            = m \ METADATA_SOURCE_MASK
       /\ tag_metadata_pythia(m) \ METADATA_SOURCE_MASK
            = m \ METADATA_SOURCE_MASK
       /\ Cardinality(tag_metadata_transformer(m) \cap METADATA_SOURCE_MASK)
            = 1
       /\ Cardinality(tag_metadata_pythia(m) \cap METADATA_SOURCE_MASK) = 1
  /\ (last.op = "cache_operate" /\ last.called # "none") =>
       Cardinality(last.ret \cap METADATA_SOURCE_MASK) = 1

\* the Transformer was given a word tagged for Pythia and the selector
\* returned it tagged for the Transformer
SourceBitReplaced ==
  /\ last.op = "cache_operate"
  /\ last.called = "transformer"
  /\ last.metadata_in = {29, 31}
  /\ last.ret = {29, 30}

\* C7: with a DRAM bandwidth reading of 15, a cache_operate of the selector
\* adds exactly one to prefetch_throttled_count, returns metadata_in, calls
\* neither underlying prefetcher and issues no prefetch.
FullBandwidthThrottles ==
  [][(last'.op = "cache_operate" /\ last'.bw = 15) =>
       /\ prefetch_throttled_count' = prefetch_throttled_count + 1
       /\ prefetch_allowed_count' = prefetch_allowed_count
       /\ last'.ret = last'.metadata_in
       /\ last'.called = "none"
       /\ last'.calls = << >>
       /\ UNCHANGED tvars]_vars

\* a miss was throttled at full bandwidth while the prefetches issued so far
\* had all been useful
ThrottledOnBandwidthAlone ==
  /\ last.op = "cache_operate"
  /\ last.bw = 15
  /\ ~last.hit
  /\ last.metadata_in # {}
  /\ low_accuracy_events = 0
  /\ prefetch_throttled_count > 0

\* C8: while the DRAM bandwidth reading is 15 or more, no hook of the
\* selector makes a call of prefetch_line, cycle_operate and cache_fill
\* included.
NoPrefetchAtFullBandwidth == last.bw >= 15 => last.calls = << >>

\* the sum of one counter over the dedicated sets and the samplers
RECURSIVE SamplerSum(_, _)
SamplerSum(field, I) ==
  IF I = {} THEN 0
  ELSE samplers[CHOOSE i \in I : TRUE][field]
         + SamplerSum(field, I \ {CHOOSE i \in I : TRUE})

UsefulSum ==
  dedicated_stats.transformer_useful + dedicated_stats.pythia_useful
    + SamplerSum("transformer_useful", SamplerIdx)
    + SamplerSum("pythia_useful", SamplerIdx)

IssuedSum ==
  dedicated_stats.transformer_issued + dedicated_stats.pythia_issued
    + SamplerSum("transformer_issued", SamplerIdx)
    + SamplerSum("pythia_issued", SamplerIdx)

LastCategory == get_set_sample_category(BitAnd(last.block, NUM_SET - 1))

\* C10: a cache_operate of the selector that is not throttled calls exactly
\* one underlying prefetcher: the Transformer, the word returned carrying
\* bit 30 and not bit 31, on a set of category 0 or 1, or of category 3 or
\* more while policy_selector >= 0; Pythia, the word carrying bit 31 and not
\* bit 30, on a set of category 2, or of category 3 or more while
\* policy_selector < 0.
RoutingFollowsCategory ==
  (last.op = "cache_operate" /\ last.called # "none") =>
    IF LastCategory \in {0, 1} \/ (LastCategory >= 3 /\ policy_selector >= 0)
    THEN /\ last.called = "transformer"
         /\ 30 \in last.ret
         /\ 31 \notin last.ret
    ELSE /\ last.called = "pythia"
         /\ 31 \in last.ret
         /\ 30 \notin last.ret

\* a policy-following set routed to Pythia by a negative policy counter
FollowerRoutedToPythia ==
  /\ last.op = "cache_operate"
  /\ last.called = "pythia"
  /\ LastCategory >= 3
  /\ policy_selector < 0

\* C11: get_set_sample_rate maps NUM_SET to the sample rate: 1024 and more
\* to 32, 256..1023 to 16, 64..255 to 8, 8..63 to 4, less than 8 to 32.
SampleRateFollowsTable ==
  last.op = "get_set_sample_rate" =>
    last.ret = IF last.block >= 1024 THEN 32
               ELSE IF last.block >= 256 THEN 16
               ELSE IF last.block >= 64 THEN 8
               ELSE IF last.block >= 8 THEN 4
               ELSE 32

\* the sampler that counts for the set of the latest call
LastSampler ==
  samplers[BitAnd(last.block, NUM_SET - 1) \div get_set_sample_rate(NUM_SET)]

\* C12: in a sampler set the counters follow the source bits of metadata_in:
\* a useful prefetch hit, and a fill of a prefetched line, whose word carries
\* the Pythia bit are counted in that sampler's Pythia counter (useful,
\* issued), and one whose word carries the Transformer bit in the
\* Transformer counter.
SamplerCountsBySource ==
  /\ (/\ last.op = "cache_operate"
      /\ last.hit
      /\ last.useful
      /\ is_sampler_set(BitAnd(last.block, NUM_SET - 1))) =>
       IF 31 \in last.metadata_in
       THEN LastSampler.pythia_useful > 0
       ELSE LastSampler.transformer_useful > 0
  /\ (/\ last.op = "cache_fill"
      /\ last.useful
      /\ is_sampler_set(last.block)) =>
       IF 31 \in last.metadata_in
       THEN LastSampler.pythia_issued > 0
       ELSE LastSampler.transformer_issued > 0

\* since initialisation head h alone has missed, n times
OnlyHead(h, n) == pos = [g \in Heads |-> IF g = h THEN n ELSE 0]

\* C13: from an initialised Transformer prefetcher, three misses on blocks
\* b, b + 1, b + 2 of one region create a stream on the third miss: a valid
\* stream of direction POSITIVE and stride 1 then starts at b + 2 and ends
\* one stream extent further, and the region's training entry is invalid;
\* after the first and after the second miss there is no stream.
ThirdMissCreatesStream ==
  \A h \in Heads :
    /\ (OnlyHead(h, 1) \/ OnlyHead(h, 2)) =>
         \A i \in StreamIdx : ~stream_table[i].valid
    /\ OnlyHead(h, 3) =>
         /\ \E i \in StreamIdx :
              /\ stream_table[i].valid
              /\ stream_table[i].direction = POSITIVE
              /\ stream_table[i].stride = 1
              /\ stream_table[i].stream_start_block = HeadBase[h] + 2
              /\ stream_table[i].stream_end_block
                   = HeadBase[h] + 2 + STREAM_EXTENT
         /\ \A k \in TrainIdx :
              ~(/\ training_table[k].valid
                /\ training_table[k].region_base
                     = compute_region_base(HeadBase[h]))

\* the third miss of the second head has just returned, and the host took
\* no prefetch from it
ThirdMissReturned ==
  /\ OnlyHead(2, 3)
  /\ last.op = "ts_cache_operate"
  /\ ~last.hit
  /\ last.block = HeadBase[2] + 2
  /\ \E i \in StreamIdx :
       stream_table[i].valid /\ stream_table[i].stream_length = 0

\* C14: after misses on blocks b, b + 1, b + 2, b + 3 on an initialised
\* Transformer prefetcher, with prefetch_line always succeeding, the MSHR
\* occupancy below one half and no cycle_operate call in between, a prefetch
\* for block b + 5 or higher has been issued when the fourth call returns:
\* the stream's current_prefetch_block, the last block prefetched, is
\* b + 5 or more.
FourthMissPrefetchesAhead ==
  OnlyHead(1, 4) =>
    \E i \in StreamIdx :
      /\ stream_table[i].valid
      /\ stream_table[i].current_prefetch_block >= HeadBase[1] + 5

\* C15: misses on blocks b, b + 4, b + 8, each in a region of its own,
\* confirm direction POSITIVE with stride 4 on the third miss and create a
\* stream of stride 4, and after the fourth miss on b + 12 a prefetch for
\* block b + 16 has been issued (prefetch_line succeeding, MSHR occupancy
\* low).
StrideFourConfirms ==
  /\ OnlyHead(1, 3) =>
       \E i \in StreamIdx :
         /\ stream_table[i].valid
         /\ stream_table[i].direction = POSITIVE
         /\ stream_table[i].stride = 4
  /\ OnlyHead(1, 4) =>
       \E i \in StreamIdx :
         /\ stream_table[i].valid
         /\ stream_table[i].stride = 4
         /\ stream_table[i].current_prefetch_block >= StrideRun[4] + 4

\* a pattern of the history that a miss on block may reuse: a POSITIVE
\* stride-1 stream of at least DENSE_LENGTH_MIN blocks, terminated within the
\* reuse window, that started within four regions of the block
ReusablePattern(block) ==
  \E i \in PatternIdx :
     /\ pattern_history[i].valid
     /\ pattern_history[i].direction = POSITIVE
     /\ pattern_history[i].stride = 1
     /\ pattern_history[i].stream_length >= DENSE_LENGTH_MIN
     /\ current_timestamp - pattern_history[i].termination_timestamp
          <= REUSE_WINDOW_SIZE
     /\ Abs(compute_region_base(block)
              - compute_region_base(pattern_history[i].region_base))
          <= REGION_SIZE_BLOCKS * 4

\* C16: once a POSITIVE stride-1 stream of length 8 or more has been
\* terminated and recorded, the second of two misses on consecutive blocks of
\* a region nearby finds a pattern confidence of 4 or more in the region's
\* training entry, and a stream starts (or is re-launched) at that miss.
SecondMissFastTracks ==
  (/\ pos[1] = Len(ReuseRun)
   /\ last.op = "ts_cache_operate" /\ last.block = ReuseRun[Len(ReuseRun)]
   /\ ReusablePattern(last.block))
  => /\ \E i \in TrainIdx :
          /\ training_table[i].region_base = compute_region_base(last.block)
          /\ training_table[i].last_miss_block = last.block
          /\ training_table[i].pattern_confidence >= FAST_TRACK_CONFIDENCE
     /\ \E i \in StreamIdx :
          /\ stream_table[i].valid
          /\ stream_table[i].direction = POSITIVE
          /\ stream_table[i].stride = 1
          /\ stream_table[i].last_trigger_timestamp = current_timestamp
          /\ stream_table[i].current_prefetch_block >= last.block
          /\ stream_table[i].current_prefetch_block
               <= last.block + STREAM_EXTENT

\* stream i as the dead-stream sweep protects it: its group has two members
\* or more and its confidence is FAST_TRACK_CONFIDENCE or more
Protected(i) ==
  /\ stream_table[i].valid
  /\ is_group_protected(T, i)
  /\ stream_table[i].confidence_score >= FAST_TRACK_CONFIDENCE

\* C17: when every stream entry is valid and a call has to make room, the one
\* stream it terminates is not a protected one: a stream whose group has two
\* members or more and whose confidence is 4 or more outlives both the
\* dead-stream sweep and the choice of a victim.
ProtectedStreamOutlivesPressure ==
  [][\A i \in StreamIdx :
       (/\ \A j \in StreamIdx : stream_table[j].valid
        /\ last'.terminated = <<i>>)
       => ~Protected(i)]_vars

\* the next cycle_operate call runs the policy update
UpdateDue ==
  cycles < SaturateCycles /\ (cycles + 1) % POLICY_UPDATE_INTERVAL = 0

\* what update_policy_selector needs to move towards the Transformer: both
\* sources have issued enough and the Transformer's score is more than 1.05
\* times Pythia's
Favoured ==
  /\ Total(S, "transformer_issued") >= POLICY_MIN_ISSUED
  /\ Total(S, "pythia_issued") >= POLICY_MIN_ISSUED
  /\ Beats(Total(S, "transformer_useful"), Total(S, "transformer_issued"),
           Total(S, "pythia_useful"), Total(S, "pythia_issued"))

\* the policy-controlled sets
PolicySets == {set \in 0 .. NUM_SET - 1 : get_set_sample_category(set) >= 3}

\* C18: if every policy update finds both sources with enough issued
\* prefetches and the Transformer's score above 1.05 times Pythia's, each
\* update raises policy_selector by one up to POLICY_MAX, the counter
\* eventually reaches POLICY_MAX and stays there, and from then on every
\* policy-controlled set selects the Transformer.
PolicySaturates ==
  /\ [][(/\ UpdateDue /\ Favoured /\ last'.op = "cycle_operate")
        => policy_selector' = Min(policy_selector + 1, POLICY_MAX)]_vars
  /\ [](UpdateDue => Favoured)
       => <>[](/\ policy_selector = POLICY_MAX
               /\ \A set \in PolicySets : use_transformer_for_set(S, set))

\* the counter has reached POLICY_MAX through updates that all went to the
\* Transformer, and the last of them has just run
SaturatedByTransformer ==
  /\ last.op = "cycle_operate"
  /\ cycles % POLICY_UPDATE_INTERVAL = 0
  /\ Favoured
  /\ policy_selector = POLICY_MAX
  /\ sampler_transformer_wins = cycles \div POLICY_UPDATE_INTERVAL
  /\ PolicySets # {}

\* C19: an instance runs its policy update on every POLICY_UPDATE_INTERVAL-th
\* call of its own cycle_operate and on no other, whatever cycle_operate
\* calls the host makes on another instance: when an update would raise the
\* counter, a call raises it exactly when it is such a call.
UpdateOnOwnCallsOnly ==
  [][(/\ pos'[1] = pos[1] + 1
      /\ Favoured
      /\ policy_selector < POLICY_MAX)
     => ((policy_selector' = policy_selector + 1)
           <=> (pos'[1] % POLICY_UPDATE_INTERVAL = 0))]_vars

\* C20: every valid stream entry has a stride of 1 or more and a direction
\* that is POSITIVE or NEGATIVE, never UNKNOWN.
ValidStreamHasStrideAndDirection ==
  \A i \in StreamIdx :
     stream_table[i].valid
     => /\ stream_table[i].stride >= 1
        /\ stream_table[i].direction \in {POSITIVE, NEGATIVE}

\* a stream that runs downwards has been created by the latest miss
DescendingStreamCreated ==
  /\ last.op = "ts_cache_operate"
  /\ \E i \in StreamIdx :
        /\ stream_table[i].valid
        /\ stream_table[i].direction = NEGATIVE
        /\ stream_table[i].stream_start_block = last.block

\* C21: at most one valid training entry exists per region base, also after
\* the eviction of the least recently used entry of a full training table.
OneTrainingEntryPerRegion ==
  \A i, j \in TrainIdx :
     (/\ i # j
      /\ training_table[i].valid /\ training_table[j].valid)
     => training_table[i].region_base # training_table[j].region_base

\* the training table is full and a head that is still in training has lost
\* its entry to another region: the least recently used entry was evicted
TrainingEntryEvicted ==
  /\ \A i \in TrainIdx : training_table[i].valid
  /\ \E h \in Heads :
        /\ pos[h] \in {1, 2}
        /\ \A i \in TrainIdx :
              training_table[i].region_base # compute_region_base(HeadBase[h])

\* C22: in every stream group member_count is the number of slots of the
\* member list that hold a stream index (0 or more), and so never exceeds
\* MAX_STREAMS_PER_GROUP, whatever streams were created, re-launched or
\* terminated.
MemberCountMatchesList ==
  \A g \in GroupIdx :
     /\ stream_groups[g].member_count
          = Cardinality({k \in MemberIdx : stream_groups[g].members[k] >= 0})
     /\ stream_groups[g].member_count <= MAX_STREAMS_PER_GROUP

\* a stream that had been re-launched (it grew past one extent) has just
\* been terminated out of a group whose list was full
RelaunchedMemberTerminated ==
  /\ last.terminated # << >>
  /\ \E p \in PatternIdx :
        /\ pattern_history[p].valid
        /\ pattern_history[p].stream_length > STREAM_EXTENT
        /\ pattern_history[p].termination_timestamp = current_timestamp
  /\ \E g \in GroupIdx :
        /\ stream_groups[g].valid
        /\ stream_groups[g].member_count = MAX_STREAMS_PER_GROUP

\* C23: whenever the selector forwards a cache_operate to one of its
\* prefetchers, the combined accuracy useful / issued is strictly greater
\* than the bandwidth utilisation get_dram_bw() / 16 (an accuracy over no
\* issued prefetch at all is let pass).
ForwardedOnlyAboveBandwidth ==
  (last.op = "cache_operate" /\ last.called # "none")
  => \/ IssuedSum = 0
     \/ 16 * UsefulSum > last.bw * IssuedSum

\* C24: is_noise(gap1, gap2) is true exactly when one of the two gaps, and
\* not the other, is of magnitude 1 or less and the gaps have opposite signs;
\* the pairs (+1, -1) and (-1, +1) are not noise.
NoiseIsOneSmallGapAgainstTheOther ==
  last.op = "is_noise" =>
    (last.ret <=>
       /\ (Abs(last.block[1]) <= 1) # (Abs(last.block[2]) <= 1)
       /\ last.block[1] * last.block[2] < 0)

\* the latest call was a miss that trained entry i and that is_noise
\* classified as noise: no stream covered the block, the entry is the one of
\* the block's region, it held two misses or more, and the gap to the block
\* is noise against the gap before it
NoisyMissOn(i) ==
  /\ last'.op = "ts_cache_operate" /\ ~last'.hit
  /\ find_stream_for_block(T, last'.block) < 0
  /\ training_table[i].valid
  /\ training_table[i].region_base = compute_region_base(last'.block)
  /\ training_table[i].miss_count >= 2
  /\ is_noise(offset(training_table[i].second_last_miss_block,
                     training_table[i].last_miss_block),
              offset(training_table[i].last_miss_block, last'.block))

\* C25: a miss classified as noise is absorbed: the training entry keeps its
\* miss_count, its direction, its stride and its three recorded blocks, so
\* that the next miss is judged against the blocks from before the noise.
NoiseLeavesTrainingEntry ==
  [][\A i \in TrainIdx :
       NoisyMissOn(i)
       => /\ training_table'[i].miss_count = training_table[i].miss_count
          /\ training_table'[i].direction = training_table[i].direction
          /\ training_table'[i].stride = training_table[i].stride
          /\ training_table'[i].last_miss_block
               = training_table[i].last_miss_block
          /\ training_table'[i].second_last_miss_block
               = training_table[i].second_last_miss_block
          /\ training_table'[i].third_last_miss_block
               = training_table[i].third_last_miss_block]_vars

\* C26: a stream has the class of the classification table for its stride
\* and its length: a stream of stride 2 or less that the latest miss created
\* is MEDIUM, its length being below DENSE_LENGTH_MIN.
NewShortStreamIsMedium ==
  \A i \in StreamIdx :
     (/\ last.op = "ts_cache_operate"
      /\ stream_table[i].valid
      /\ stream_table[i].stream_start_block = last.block
      /\ stream_table[i].reactivation_count = 0
      /\ stream_table[i].last_trigger_timestamp = current_timestamp
      /\ stream_table[i].stride <= DENSE_STRIDE_MAX
      /\ stream_table[i].stream_length < DENSE_LENGTH_MIN)
     => /\ stream_table[i].stream_class = "MEDIUM"
        /\ stream_table[i].stream_class = classify_stream(stream_table[i])

\* the most prefetch_line calls one invocation of generate_prefetches on
\* stream i may make in the present state
DegreeLimit(i) ==
  LET least == Min(get_current_prefetch_degree(T),
                   Min(get_prefetch_degree_for_class(
                         stream_table[i].stream_class),
                       get_safe_lookahead(stream_table[i])))
  IN IF is_in_phase_transition(T) THEN Min(least, MIN_PREFETCH_DEGREE)
     ELSE least

\* the streams cycle_operate invokes generate_prefetches on
ActiveStreams == {i \in StreamIdx : stream_table[i].valid
                                    /\ stream_table[i].active}

RECURSIVE DegreeLimitSum(_)
DegreeLimitSum(I) ==
  IF I = {} THEN 0
  ELSE DegreeLimit(CHOOSE i \in I : TRUE)
         + DegreeLimitSum(I \ {CHOOSE i \in I : TRUE})

\* C27: an invocation of generate_prefetches makes at most
\* min(phase_degree, class_degree, safe_lookahead) prefetch_line calls, never
\* more than 4, and at most MIN_PREFETCH_DEGREE while the prefetcher is in
\* phase transition: a cycle_operate call, which invokes it once on every
\* active stream, makes no more calls than these limits allow together.
PrefetchesWithinDegree ==
  [][last'.op = "ts_cycle_operate"
     => /\ Len(last'.calls) <= DegreeLimitSum(ActiveStreams)
        /\ Len(last'.calls) <= 4 * Cardinality(ActiveStreams)
        /\ is_in_phase_transition(T)
             => Len(last'.calls)
                  <= MIN_PREFETCH_DEGREE * Cardinality(ActiveStreams)]_vars

\* a cycle_operate call has issued two prefetches for the one active stream
IssuedFullDegree ==
  /\ last.op = "ts_cycle_operate"
  /\ Len(last.calls) = 2
  /\ last.calls[1].success /\ last.calls[2].success
  /\ Cardinality({i \in StreamIdx : stream_table[i].valid}) = 1

\* the block generate_prefetches asks for first on stream entry e
NextBlock(e) == e.current_prefetch_block + e.direction * e.stride

\* the next block of e lies past the end of its stream
BeyondEnd(e) ==
  IF e.direction = POSITIVE THEN NextBlock(e) > e.stream_end_block
  ELSE NextBlock(e) < e.stream_end_block

\* the prefetch_line calls of the latest hook call that succeeded
Succeeded(calls) == Cardinality({n \in 1 .. Len(calls) : calls[n].success})

\* entry e after k consumed slots is entry f, still valid and active
SlotsConsumed(e, f, k) ==
  /\ f.current_prefetch_block
       = e.current_prefetch_block + k * e.direction * e.stride
  /\ f.stream_length = e.stream_length + k
  /\ f.consistent_stride_count = e.consistent_stride_count + k
  /\ f.valid /\ f.active

MissesInWindowCountsMisses ==
  [][(last'.op = "ts_cache_operate" /\ ~last'.hit)
     => phase_state'.misses_in_window
          = (phase_state.misses_in_window + 1) % PHASE_WINDOW_SIZE]_vars

\* the update_phase_state call a miss makes itself closes a window in which
\* enough streams were terminated: the miss detects a phase transition
MissDetects ==
  /\ phase_state.misses_in_window + 1 >= PHASE_WINDOW_SIZE
  /\ phase_state.streams_terminated_in_window >= PHASE_TRANSITION_THRESHOLD

\* misses_in_window after the update_phase_state call of a miss
MissesAfterMiss ==
  IF phase_state.misses_in_window + 1 >= PHASE_WINDOW_SIZE THEN 0
  ELSE phase_state.misses_in_window + 1

\* recovery_counter after a miss that finds or puts the prefetcher in phase
\* transition, when the miss alone advances it
CounterAfterMiss ==
  (IF MissDetects THEN 0 ELSE phase_state.recovery_counter) + 1

\* C30: in phase transition a miss advances recovery_counter by one and the
\* streams terminated while the miss is processed do not advance it; the
\* transition is left, with current_prefetch_degree back at
\* BASE_PREFETCH_DEGREE and recovery_counter at 0, exactly when the counter
\* reaches PHASE_RECOVERY_WINDOW.  Stated on the misses whose terminations
\* close no window of their own.
RecoveryCountsMissesOnly ==
  [][(/\ last'.op = "ts_cache_operate" /\ ~last'.hit
      /\ MissesAfterMiss + Len(last'.terminated) < PHASE_WINDOW_SIZE
      /\ phase_state.in_phase_transition \/ MissDetects)
     => IF CounterAfterMiss >= PHASE_RECOVERY_WINDOW
        THEN /\ ~phase_state'.in_phase_transition
             /\ phase_state'.current_prefetch_degree = BASE_PREFETCH_DEGREE
             /\ phase_state'.recovery_counter = 0
        ELSE /\ phase_state'.in_phase_transition
             /\ phase_state'.recovery_counter = CounterAfterMiss]_vars

\* Step 3 of prefetcher_cache_operate finds the training entry ready
ReadyEntry(trained) ==
  /\ \/ trained.miss_count >= CONFIRMATION_THRESHOLD
     \/ (trained.miss_count >= 2 /\ can_fast_track_training(trained))
  /\ trained.direction # UNKNOWN
  /\ trained.stride >= 1

\* training entry idx as a miss on block leaves it
TrainedOn(idx, block) ==
  update_training_entry(T, idx, block).training_table[idx]

\* a miss on block trains entry idx and confirms it, in a call without the
\* periodic cleanup
ConfirmingMiss(idx, block) ==
  /\ cleanup_counter + 1 < CLEANUP_INTERVAL
  /\ find_stream_for_block(T, block) = -1
  /\ find_training_entry(T, compute_region_base(block)) = idx
  /\ ReadyEntry(TrainedOn(idx, block))

\* the valid inactive streams of the direction and stride of trained whose
\* start region is within two regions of the region of block
DormantMatches(trained, block) ==
  {i \in StreamIdx :
     /\ stream_table[i].valid /\ ~stream_table[i].active
     /\ stream_table[i].direction = trained.direction
     /\ stream_table[i].stride = trained.stride
     /\ Abs(compute_region_base(stream_table[i].stream_start_block)
              - compute_region_base(block)) <= 2 * REGION_SIZE_BLOCKS}

\* entry e re-launched at block, with k prefetches issued since, is entry f
Relaunched(e, f, block, k) ==
  /\ f.valid
  /\ f.current_prefetch_block = block + k * e.direction * e.stride
  /\ f.confidence_score
       = Min(e.confidence_score + CONFIDENCE_BOOST_ON_REUSE, MAX_CONFIDENCE)
  /\ f.reactivation_count = e.reactivation_count + 1

\* C31: a confirming miss that finds a valid inactive stream of the same
\* direction and stride, started within 2 * REGION_SIZE_BLOCKS of the miss's
\* region, re-launches that stream instead of creating one: the stream
\* restarts at the miss block (and prefetches from there), its confidence
\* rises by CONFIDENCE_BOOST_ON_REUSE up to MAX_CONFIDENCE, its
\* reactivation_count rises by one, no other entry becomes valid or is
\* terminated, and the training entry is invalidated.
ConfirmingMissRelaunches ==
  [][\A idx \in TrainIdx :
       (/\ last'.op = "ts_cache_operate" /\ ~last'.hit
        /\ ConfirmingMiss(idx, last'.block)
        /\ DormantMatches(TrainedOn(idx, last'.block), last'.block) # {})
       => /\ \E m \in DormantMatches(TrainedOn(idx, last'.block), last'.block) :
               /\ Relaunched(stream_table[m], stream_table'[m], last'.block,
                             Succeeded(last'.calls))
               /\ \A j \in StreamIdx \ {m} :
                    stream_table'[j].valid = stream_table[j].valid
          /\ last'.terminated = << >>
          /\ ~training_table'[idx].valid]_vars

\* a miss below the start of an ascending stream has re-launched it
RelaunchedBelowStart ==
  /\ last.op = "ts_cache_operate" /\ ~last.hit
  /\ \E i \in StreamIdx :
       /\ stream_table[i].valid /\ stream_table[i].direction = POSITIVE
       /\ stream_table[i].reactivation_count > 0
       /\ stream_table[i].last_trigger_timestamp = current_timestamp
       /\ last.block < stream_table[i].stream_start_block
       /\ stream_table[i].current_prefetch_block
            = last.block + Succeeded(last.calls)

\* the priority of valid stream i when the miss under way looks for a victim:
\* class base + 2 * confidence + 3 * member_count of its group + 10 if active
\* - the age penalty, the age counted at the timestamp of the miss
VictimPriority(i) ==
  LET entry == stream_table[i]
      age == current_timestamp + 1 - entry.last_trigger_timestamp
  IN (CASE entry.stream_class = "DENSE" -> 30
        [] entry.stream_class = "MEDIUM" -> 20
        [] entry.stream_class = "SPARSE" -> 10
        [] OTHER -> 15)
     + 2 * entry.confidence_score
     + (IF entry.group_id \in GroupIdx
        THEN 3 * stream_groups[entry.group_id].member_count ELSE 0)
     + (IF entry.active THEN 10 ELSE 0)
     - (IF age > DEAD_STREAM_THRESHOLD \div 2 THEN 5 ELSE 0)
     - (IF age > DEAD_STREAM_THRESHOLD THEN 10 ELSE 0)

\* the sweep of the miss under way finds stream i dead
DeadAtMiss(i) == IsDead([T EXCEPT !.current_timestamp = @ + 1], i)

\* a miss on block creates a stream in a full stream table none of whose
\* streams the sweep removes, in a call without the periodic cleanup
CreatesInFullTable(idx, block) ==
  /\ ConfirmingMiss(idx, block)
  /\ DormantMatches(TrainedOn(idx, block), block) = {}
  /\ \A i \in StreamIdx : stream_table[i].valid /\ ~DeadAtMiss(i)

\* C32: the victim has the lowest priority: when allocate_stream_entry finds
\* every entry valid after the dead-stream sweep, it terminates one stream,
\* and that stream has the least priority (class base + 2 * confidence
\* + 3 * member_count + 10 if active - age penalty) of all valid streams;
\* a miss that finds an invalid entry terminates no stream.
VictimHasLowestPriority ==
  [][(last'.op = "ts_cache_operate" /\ ~last'.hit
      /\ cleanup_counter + 1 < CLEANUP_INTERVAL)
     => /\ (\E i \in StreamIdx : ~stream_table[i].valid)
             => last'.terminated = << >>
        /\ \A idx \in TrainIdx :
             CreatesInFullTable(idx, last'.block)
             => /\ Len(last'.terminated) = 1
                /\ \A j \in StreamIdx :
                     VictimPriority(last'.terminated[1]) <= VictimPriority(j)]_vars

\* a miss on a full stream table has terminated one stream and created its
\* own in that slot
VictimEvicted ==
  /\ last.op = "ts_cache_operate" /\ ~last.hit
  /\ Len(last.terminated) = 1
  /\ cleanup_counter # 0
  /\ \A i \in StreamIdx : stream_table[i].valid
  /\ stream_table[last.terminated[1]].stream_start_block = last.block

\* the group of stream i in state t has two members or more
GroupHasTwo(t, i) ==
  /\ t.stream_table[i].group_id \in GroupIdx
  /\ Cardinality({k \in MemberIdx :
                    t.stream_groups[t.stream_table[i].group_id].members[k]
                      >= 0}) >= 2

\* stream i of state t is to be removed: old, short, and not both in a group
\* of two members or more and of fast-track confidence
ToBeRemoved(t, i) ==
  /\ t.current_timestamp - t.stream_table[i].last_trigger_timestamp
       > DEAD_STREAM_THRESHOLD
  /\ t.stream_table[i].stream_length < SHORT_STREAM_THRESHOLD
  /\ ~(GroupHasTwo(t, i)
       /\ t.stream_table[i].confidence_score >= FAST_TRACK_CONFIDENCE)

\* the sweep from stream i on that terminates the streams to be removed
RECURSIVE RemovalsFrom(_, _)
RemovalsFrom(t, i) ==
  IF i >= STREAM_TABLE_SIZE THEN t.terminated
  ELSE IF t.stream_table[i].valid /\ ToBeRemoved(t, i)
  THEN RemovalsFrom(terminate_stream(t, i), i + 1)
  ELSE RemovalsFrom(t, i + 1)

\* the miss under way terminates streams in its periodic sweep only: an entry
\* is invalid, or a stream is dead, before the sweep starts
SweepOnly ==
  /\ cleanup_counter + 1 >= CLEANUP_INTERVAL
  /\ \E i \in StreamIdx : ~stream_table[i].valid \/ DeadAtMiss(i)

\* C33: remove_dead_streams terminates a valid stream if and only if, when
\* the sweep examines it, its age exceeds DEAD_STREAM_THRESHOLD, its
\* stream_length is below SHORT_STREAM_THRESHOLD, and it is not both in a
\* group of two members or more and of confidence FAST_TRACK_CONFIDENCE or
\* more; a stream of length SHORT_STREAM_THRESHOLD or more, or of age
\* DEAD_STREAM_THRESHOLD or less, is never removed by the sweep.
SweepRemovesExactlyTheDead ==
  [][(last'.op = "ts_cache_operate" /\ ~last'.hit /\ SweepOnly)
     => /\ last'.terminated
             = RemovalsFrom([T EXCEPT !.current_timestamp = @ + 1], 0)
        /\ \A n \in 1 .. Len(last'.terminated) :
             /\ stream_table[last'.terminated[n]].stream_length
                  < SHORT_STREAM_THRESHOLD
             /\ current_timestamp + 1
                  - stream_table[last'.terminated[n]].last_trigger_timestamp
                  > DEAD_STREAM_THRESHOLD]_vars

\* the periodic sweep has removed one stream and kept an older one
SweepRemovedOneKeptOne ==
  /\ last.op = "ts_cache_operate" /\ ~last.hit
  /\ cleanup_counter = 0
  /\ Len(last.terminated) >= 1
  /\ \E i \in StreamIdx :
       /\ stream_table[i].valid
       /\ current_timestamp - stream_table[i].last_trigger_timestamp
            > DEAD_STREAM_THRESHOLD

\* the pattern terminate_stream records for stream entry e at timestamp now
PatternOf(e, now) ==
  [valid |-> TRUE, direction |-> e.direction, stride |-> e.stride,
   region_base |-> e.stream_start_block, termination_timestamp |-> now,
   stream_length |-> e.stream_length, stream_class |-> e.stream_class]

\* group g after stream v left it is group h
MemberRemoved(g, h, v) ==
  /\ \A k \in MemberIdx : h.members[k] # v
  /\ \A k \in MemberIdx : g.members[k] # v => h.members[k] = g.members[k]
  /\ h.member_count
       = IF \E k \in MemberIdx : g.members[k] = v
         THEN g.member_count - 1 ELSE g.member_count
  /\ h.valid = (g.valid /\ h.member_count # 0)

\* terminate_stream leaves the prefetcher as it is
TerminateChangesNothing(i) == terminate_stream(T, i) = T

\* C34: terminate_stream on a valid stream writes the stream's direction,
\* stride, start block, length, class and the current timestamp into
\* pattern_history at pattern_history_head and advances the head by one
\* modulo PATTERN_HISTORY_SIZE (the head stays within the history), removes
\* the stream from its group (invalidating a group left empty), counts one
\* termination in the phase state and marks the entry invalid and inactive;
\* on an invalid or out-of-range index it changes nothing.  Observed on the
\* misses that terminate one stream and trigger, create or re-launch none.
TerminationRecordsAndUnlinks ==
  [][/\ \A i \in -1 .. STREAM_TABLE_SIZE :
          (IF i \in StreamIdx THEN ~stream_table[i].valid ELSE TRUE)
          => TerminateChangesNothing(i)
     /\ pattern_history_head' \in PatternIdx
     /\ \A v \in StreamIdx :
          (/\ last'.op = "ts_cache_operate" /\ ~last'.hit
           /\ last'.terminated = <<v>>
           /\ \A i \in StreamIdx :
                stream_table'[i].valid
                => stream_table'[i].last_trigger_timestamp
                     # current_timestamp')
          => /\ pattern_history'[pattern_history_head]
                  = PatternOf(stream_table[v], current_timestamp')
             /\ \A p \in PatternIdx \ {pattern_history_head} :
                  pattern_history'[p] = pattern_history[p]
             /\ pattern_history_head'
                  = (pattern_history_head + 1) % PATTERN_HISTORY_SIZE
             /\ \A g \in GroupIdx :
                  IF g = stream_table[v].group_id
                  THEN MemberRemoved(stream_groups[g], stream_groups'[g], v)
                  ELSE stream_groups'[g] = stream_groups[g]
             /\ phase_state.misses_in_window + 2 < PHASE_WINDOW_SIZE
                  => phase_state'.streams_terminated_in_window
                       = phase_state.streams_terminated_in_window + 1
             /\ ~stream_table'[v].valid /\ ~stream_table'[v].active
             /\ stream_table'[v].group_id = -1]_vars

\* a miss has terminated the last member of a group and nothing else: the
\* group is invalid and the pattern is in the history
LastMemberTerminated ==
  /\ last.op = "ts_cache_operate" /\ ~last.hit
  /\ Len(last.terminated) = 1
  /\ ~stream_table[last.terminated[1]].valid
  /\ \A i \in StreamIdx :
       stream_table[i].valid
       => stream_table[i].last_trigger_timestamp # current_timestamp
  /\ \E g \in GroupIdx :
       ~stream_groups[g].valid /\ stream_groups[g].stride > 0
  /\ \E p \in PatternIdx :
       /\ pattern_history[p].valid
       /\ pattern_history[p].termination_timestamp = current_timestamp

\* C35: groups hold no dangling references: every stream index in the member
\* list of a valid group is that of a valid stream whose group_id is the
\* group's index and whose direction and stride are the group's.
GroupMembersAreLiveStreams ==
  \A g \in GroupIdx, k \in MemberIdx :
     (stream_groups[g].valid /\ stream_groups[g].members[k] >= 0)
     => /\ stream_groups[g].members[k] \in StreamIdx
        /\ stream_table[stream_groups[g].members[k]].valid
        /\ stream_table[stream_groups[g].members[k]].group_id = g
        /\ stream_table[stream_groups[g].members[k]].direction
             = stream_groups[g].direction
        /\ stream_table[stream_groups[g].members[k]].stride
             = stream_groups[g].stride

\* the slot of a stream terminated in the latest call holds a new stream, and
\* a valid group lists that index
EvictedIndexListedAgain ==
  /\ last.op = "ts_cache_operate"
  /\ last.terminated # << >>
  /\ \E g \in GroupIdx, k \in MemberIdx, n \in 1 .. Len(last.terminated) :
       /\ stream_groups[g].valid
       /\ stream_groups[g].members[k] = last.terminated[n]

TransitionEndsWithinWindow ==
  /\ phase_state.in_phase_transition
       = (phase_state.current_prefetch_degree = MIN_PREFETCH_DEGREE)
  /\ phase_state.current_prefetch_degree
       \in {MIN_PREFETCH_DEGREE, BASE_PREFETCH_DEGREE}
  /\ phase_state.misses_in_window < PHASE_WINDOW_SIZE
  /\ IF phase_state.in_phase_transition
     THEN /\ phase_state.recovery_counter >= 1
          /\ phase_state.recovery_counter < PHASE_RECOVERY_WINDOW
          /\ phase_state.misses_in_window = phase_state.recovery_counter - 1
          /\ phase_state.misses_in_window + 1 < PHASE_WINDOW_SIZE
     ELSE phase_state.recovery_counter = 0

\* a miss that terminated no stream has left the prefetcher in phase
\* transition
InTransitionAfterQuietMiss ==
  /\ last.op = "ts_cache_operate" /\ ~last.hit
  /\ last.terminated = << >>
  /\ phase_state.in_phase_transition
  /\ phase_state.current_prefetch_degree = MIN_PREFETCH_DEGREE

\* prefetches were issued and none was useful
LockedOut == IssuedSum > 0 /\ UsefulSum = 0

\* C38: accuracy lock-out: while the issued counters sum to more than 0 and
\* the useful counters to 0, a cache_operate of the selector that credits no
\* useful prefetch hit is throttled under every bandwidth reading, 0
\* included: neither prefetcher is called, the Transformer is unchanged and
\* metadata_in is returned; a useful prefetch hit is credited to a useful
\* counter also in a call that is throttled.
LockedOutUntilUsefulHit ==
  [][last'.op = "cache_operate"
     => /\ (last'.called = "none" /\ last'.useful /\ last'.hit)
             => UsefulSum' = UsefulSum + 1
        /\ LockedOut
             => IF last'.useful /\ last'.hit
                THEN UsefulSum' = 1
                ELSE /\ last'.called = "none"
                     /\ last'.ret = last'.metadata_in
                     /\ UNCHANGED tvars
                     /\ prefetch_throttled_count' = prefetch_throttled_count + 1
                     /\ transformer_selected_count' = transformer_selected_count
                     /\ pythia_selected_count' = pythia_selected_count
                     /\ LockedOut']_vars

\* an access at bandwidth reading 0 has been throttled for want of a useful
\* prefetch
ThrottledAtZeroBandwidth ==
  /\ last.op = "cache_operate"
  /\ last.bw = 0
  /\ last.called = "none"
  /\ LockedOut

\* C39: when cycle_operate keeps being called, the MSHR occupancy stays at
\* 0.75 or less and every prefetch_line succeeds, every active stream
\* eventually becomes inactive once the misses have ceased: each call moves
\* current_prefetch_block on by a stride at least, until the next block
\* would pass stream_end_block.
ActiveStreamsDrain ==
  \A i \in StreamIdx : ActiveStream(i) ~> ~ActiveStream(i)

\* a cycle_operate call after the last miss has found a stream at its end and
\* deactivated it
StreamDrainedAtEnd ==
  /\ last.op = "ts_cycle_operate"
  /\ pos[1] = Len(ReuseRun)
  /\ \A i \in StreamIdx : ~ActiveStream(i)
  /\ \E i \in StreamIdx :
       /\ stream_table[i].valid
       /\ stream_table[i].current_prefetch_block
            = stream_table[i].stream_end_block

\* block lies at or before the end of stream entry e, in its direction
WithinEnd(e, block) ==
  IF e.direction = POSITIVE THEN block <= e.stream_end_block
  ELSE block >= e.stream_end_block

\* the calls logged are those of one invocation on a stream that stood at
\* block from and has entry f now: the n-th asks for the block n strides on,
\* none past the end
CallsFollowStream(calls, from, f) ==
  \A n \in 1 .. Len(calls) :
     /\ calls[n].block = from + n * f.direction * f.stride
     /\ WithinEnd(f, calls[n].block)

\* C40: a stream never prefetches past its end: every block generate_prefetches
\* passes to prefetch_line is the stream's current_prefetch_block + direction
\* * stride at that moment and lies at or before stream_end_block in the
\* stream's direction, and a stream whose next block lies beyond the end is
\* deactivated with nothing issued.  Stated on cycle_operate calls with one
\* active stream, and on the misses that issue prefetches, where the stream
\* is the one left at the last block taken.
NoPrefetchPastEnd ==
  [][/\ \A i \in StreamIdx :
          (last'.op = "ts_cycle_operate" /\ ActiveStreams = {i})
          => /\ CallsFollowStream(last'.calls,
                                  stream_table[i].current_prefetch_block,
                                  stream_table'[i])
             /\ BeyondEnd(stream_table[i])
                  => last'.calls = << >> /\ ~stream_table'[i].active
     /\ (last'.op = "ts_cache_operate" /\ last'.calls # << >>)
          => \E j \in StreamIdx :
               /\ stream_table'[j].valid
               /\ CallsFollowStream(
                    last'.calls,
                    stream_table'[j].current_prefetch_block
                      - Succeeded(last'.calls) * stream_table'[j].direction
                          * stream_table'[j].stride,
                    stream_table'[j])]_vars

\* after a cycle_operate call that issued nothing, the only stream stands at
\* its end, deactivated
DeactivatedAtEnd ==
  /\ last.op = "ts_cycle_operate"
  /\ last.calls = << >>
  /\ Cardinality({i \in StreamIdx : stream_table[i].valid}) = 1
  /\ \E i \in StreamIdx :
       /\ stream_table[i].valid /\ ~stream_table[i].active
       /\ BeyondEnd(stream_table[i])
       /\ stream_table[i].last_trigger_timestamp < current_timestamp

====
